---- MODULE Spec2Model ----
(***************************************************************************)
(* Model of the WordPress bulk uploader (bulk-upload.js, here               *)
(* src/unnamed/part_001): the batch driver processCsvFile, the per-row      *)
(* reconciliation createOrUpdatePost and the resolvers it awaits, run       *)
(* against a remote corpus of posts, terms and media.                       *)
(*                                                                         *)
(* JavaScript runs each stretch of code between two awaits atomically, so   *)
(* an action is one remote call as the remote serves it, followed by the    *)
(* code that runs on its response up to the next remote call.               *)
(* Strings the code inspects (titles, slugs, term lists, image paths) are   *)
(* sequences of one-character strings, so that trim, split, toLowerCase     *)
(* and the regular-expression replacements are computed, not assumed.       *)
(* The variable pure holds the argument and the result of a function of    *)
(* the program that is checked on its own (normalizeTitle, the robots and  *)
(* the SEO metadata of a row); the batch run leaves it alone.              *)
(* A run records the entry point that started it (the /upload handler of   *)
(* server.js or main) and the notifications its observer throws on.        *)
(* The variable web is the state of the web server of server.js: its       *)
(* clock, its session store, the tokens it handed out and its registry of  *)
(* progress streams; the batch run leaves it alone.                        *)
(***************************************************************************)
EXTENDS Integers, Sequences, FiniteSets, TLC

VARIABLES posts, terms, media, nextPostId, nextTermId, logResults, run, pure,
          web

vars == <<posts, terms, media, nextPostId, nextTermId, logResults, run, pure,
         web>>

-----------------------------------------------------------------------------
(* Bounds of the model *)

\* longest CSV file (number of rows) a run is given
MaxRows == 2

\* most pieces of text a title given to normalizeTitle is put together from
MaxTokens == 3

\* longest plain title the title variants are made of
MaxBaseLen == 2

\* longest noindex value of a row
MaxFlagLen == 3

\* the logins the server answers
MaxLogins == 2

\* the progress streams that are opened
MaxConns == 2

\* the last reading of the server's clock
MaxTime == 2

\* the processCsvFile calls the model tracks, and the one a batch run starts
Runs == {1, 2}

BatchRuns == {1}

-----------------------------------------------------------------------------
(* Program constants *)

\* page size of the title scan; 100 in the source, scaled down so that a
\* corpus larger than the scanned window fits the model
perPage == 2

\* the last page the title scan requests; 10 in the source, scaled down
MaxPages == 2

DEFAULT_STATUS == "draft"

-----------------------------------------------------------------------------
(* JavaScript string primitives over sequences of characters *)

WhiteSpace == {" ", "\t", "\n"}

UpperChars == <<"A","B","C","D","E","F","G","H","I","J","K","L","M",
                "N","O","P","Q","R","S","T","U","V","W","X","Y","Z">>

LowerChars == <<"a","b","c","d","e","f","g","h","i","j","k","l","m",
                "n","o","p","q","r","s","t","u","v","w","x","y","z">>

\* the lower-case letter of each upper-case letter
UpperToLower ==
  [c \in {UpperChars[k] : k \in 1..Len(UpperChars)} |->
     LowerChars[CHOOSE k \in 1..Len(UpperChars) : UpperChars[k] = c]]

LowerChar(c) == IF c \in DOMAIN UpperToLower THEN UpperToLower[c] ELSE c

\* String.prototype.toLowerCase
RECURSIVE ToLowerCase(_)
ToLowerCase(s) ==
  IF s = <<>> THEN <<>> ELSE <<LowerChar(Head(s))>> \o ToLowerCase(Tail(s))

RECURSIVE TrimStart(_)
TrimStart(s) ==
  IF s # <<>> /\ Head(s) \in WhiteSpace THEN TrimStart(Tail(s)) ELSE s

RECURSIVE TrimEnd(_)
TrimEnd(s) ==
  IF s # <<>> /\ s[Len(s)] \in WhiteSpace
  THEN TrimEnd(SubSeq(s, 1, Len(s) - 1)) ELSE s

\* String.prototype.trim
Trim(s) == TrimEnd(TrimStart(s))

\* String.prototype.startsWith
StartsWith(s, p) == Len(s) >= Len(p) /\ SubSeq(s, 1, Len(p)) = p

\* s.replace(/pat/g, rep) for a literal pattern
RECURSIVE ReplaceAll(_, _, _)
ReplaceAll(s, pat, rep) ==
  IF Len(s) < Len(pat) THEN s
  ELSE IF StartsWith(s, pat)
       THEN rep \o ReplaceAll(SubSeq(s, Len(pat) + 1, Len(s)), pat, rep)
       ELSE <<Head(s)>> \o ReplaceAll(Tail(s), pat, rep)

\* position of the first c in s at or after position from, 0 when none
FirstAt(s, c, from) ==
  IF \E k \in from..Len(s) : s[k] = c
  THEN CHOOSE k \in from..Len(s) :
         s[k] = c /\ \A j \in from..(k - 1) : s[j] # c
  ELSE 0

\* s.replace(/<[^>]*>/g, '')
RECURSIVE RemoveTags(_)
RemoveTags(s) ==
  IF s = <<>> THEN <<>>
  ELSE IF Head(s) = "<" /\ FirstAt(s, ">", 2) # 0
       THEN RemoveTags(SubSeq(s, FirstAt(s, ">", 2) + 1, Len(s)))
       ELSE <<Head(s)>> \o RemoveTags(Tail(s))

\* s.replace(/&[^;]+;/g, '')
RECURSIVE RemoveEntities(_)
RemoveEntities(s) ==
  IF s = <<>> THEN <<>>
  ELSE IF Head(s) = "&" /\ Len(s) >= 3 /\ s[2] # ";" /\ FirstAt(s, ";", 3) # 0
       THEN RemoveEntities(SubSeq(s, FirstAt(s, ";", 3) + 1, Len(s)))
       ELSE <<Head(s)>> \o RemoveEntities(Tail(s))

\* s.replace(/\s+/g, ' ')
RECURSIVE CollapseWhitespace(_)
CollapseWhitespace(s) ==
  IF s = <<>> THEN <<>>
  ELSE IF Head(s) \in WhiteSpace
       THEN <<" ">> \o CollapseWhitespace(TrimStart(s))
       ELSE <<Head(s)>> \o CollapseWhitespace(Tail(s))

\* normalizeTitle without the removal of the entities that are left
normalizeTitle_KeepsEntities(str) ==
  IF str = <<>> THEN <<>>
  ELSE
    LET s1 == RemoveTags(str)
        s2 == ReplaceAll(s1, <<"&","n","b","s","p",";">>, <<" ">>)
        s3 == ReplaceAll(s2, <<"&","a","m","p",";">>, <<"&">>)
        s4 == ReplaceAll(s3, <<"&","q","u","o","t",";">>, <<"\"">>)
        s5 == ReplaceAll(s4, <<"&","#","8","2","1","7",";">>, <<"'">>)
        s6 == ReplaceAll(s5, <<"&","#","8","2","1","6",";">>, <<"'">>)
        s7 == ReplaceAll(s6, <<"&","#","3","9",";">>, <<"'">>)
        s8 == ReplaceAll(s7, <<"&","#","0","3","8",";">>, <<"&">>)
    IN Trim(ToLowerCase(CollapseWhitespace(s8)))

\* normalizeTitle without toLowerCase
normalizeTitle_KeepsCase(str) ==
  IF str = <<>> THEN <<>>
  ELSE
    LET s1 == RemoveTags(str)
        s2 == ReplaceAll(s1, <<"&","n","b","s","p",";">>, <<" ">>)
        s3 == ReplaceAll(s2, <<"&","a","m","p",";">>, <<"&">>)
        s4 == ReplaceAll(s3, <<"&","q","u","o","t",";">>, <<"\"">>)
        s5 == ReplaceAll(s4, <<"&","#","8","2","1","7",";">>, <<"'">>)
        s6 == ReplaceAll(s5, <<"&","#","8","2","1","6",";">>, <<"'">>)
        s7 == ReplaceAll(s6, <<"&","#","3","9",";">>, <<"'">>)
        s8 == ReplaceAll(s7, <<"&","#","0","3","8",";">>, <<"&">>)
        s9 == RemoveEntities(s8)
    IN Trim(CollapseWhitespace(s9))

\* normalizeTitle of findPostByTitle, for a string argument
normalizeTitle(str) ==
  IF str = <<>> THEN <<>>
  ELSE
    LET s1 == RemoveTags(str)
        s2 == ReplaceAll(s1, <<"&","n","b","s","p",";">>, <<" ">>)
        s3 == ReplaceAll(s2, <<"&","a","m","p",";">>, <<"&">>)
        s4 == ReplaceAll(s3, <<"&","q","u","o","t",";">>, <<"\"">>)
        s5 == ReplaceAll(s4, <<"&","#","8","2","1","7",";">>, <<"'">>)
        s6 == ReplaceAll(s5, <<"&","#","8","2","1","6",";">>, <<"'">>)
        s7 == ReplaceAll(s6, <<"&","#","3","9",";">>, <<"'">>)
        s8 == ReplaceAll(s7, <<"&","#","0","3","8",";">>, <<"&">>)
        s9 == RemoveEntities(s8)
    IN Trim(ToLowerCase(CollapseWhitespace(s9)))

\* termString.split(',').map(n => n.trim()).filter(Boolean)
RECURSIVE SplitNames(_)
SplitNames(s) ==
  LET k    == FirstAt(s, ",", 1)
      name == Trim(IF k = 0 THEN s ELSE SubSeq(s, 1, k - 1))
      rest == IF k = 0 THEN <<>> ELSE SplitNames(SubSeq(s, k + 1, Len(s)))
  IN (IF name = <<>> THEN <<>> ELSE <<name>>) \o rest

-----------------------------------------------------------------------------
(* JSON.parse and JSON.stringify, for texts written with white space, the   *)
(* structural characters, double quotes, digits and letters: integers       *)
(* without sign, strings without escapes, true, false, null, arrays and     *)
(* objects. A parsed value is held as the text JSON.stringify gives for it. *)

JsonWhiteSpace == {" ", "\t", "\n"}

JsonDigits == {"0", "1", "2", "3", "4", "5", "6", "7", "8", "9"}

JsonLiterals == { <<"t", "r", "u", "e">>, <<"f", "a", "l", "s", "e">>,
                  <<"n", "u", "l", "l">> }

\* first position at or after i that holds no white space
RECURSIVE SkipWs(_, _)
SkipWs(s, i) ==
  IF i <= Len(s) /\ s[i] \in JsonWhiteSpace THEN SkipWs(s, i + 1) ELSE i

\* first position at or after i that holds no digit
RECURSIVE DigitsEnd(_, _)
DigitsEnd(s, i) ==
  IF i <= Len(s) /\ s[i] \in JsonDigits THEN DigitsEnd(s, i + 1) ELSE i

\* a SyntaxError
JsonFail == [ok |-> FALSE, next |-> 0, text |-> <<>>]

\* a value that ends before position next
JsonOk(next, text) == [ok |-> TRUE, next |-> next, text |-> text]

\* the number a run of digits writes
RECURSIVE NatOf(_)
NatOf(ds) ==
  IF ds = <<>> THEN 0
  ELSE 10 * NatOf(SubSeq(ds, 1, Len(ds) - 1))
       + (CHOOSE n \in 0..9 : ds[Len(ds)] = <<"0","1","2","3","4","5","6","7","8","9">>[n + 1])

\* a property key that is an array index: such keys are enumerated first,
\* in ascending order
IsIndexKey(key) ==
  /\ key # <<>>
  /\ \A k \in 1..Len(key) : key[k] \in JsonDigits
  /\ key[1] = "0" => Len(key) = 1

\* members of an object in construction: the value of a key that is already
\* there is replaced where it stands
PutMember(ms, key, text) ==
  IF \E k \in 1..Len(ms) : ms[k].key = key
  THEN [k \in 1..Len(ms) |-> IF ms[k].key = key THEN [key |-> key, text |-> text]
                             ELSE ms[k]]
  ELSE Append(ms, [key |-> key, text |-> text])

\* the index keys of ms in ascending order
RECURSIVE SortIndexKeys(_)
SortIndexKeys(ms) ==
  IF ms = <<>> THEN <<>>
  ELSE LET least == CHOOSE k \in 1..Len(ms) :
                      \A j \in 1..Len(ms) : NatOf(ms[k].key) <= NatOf(ms[j].key)
       IN <<ms[least]>>
            \o SortIndexKeys(SubSeq(ms, 1, least - 1) \o SubSeq(ms, least + 1, Len(ms)))

\* the order in which the properties of an object are enumerated
PropertyOrder(ms) ==
  SortIndexKeys(SelectSeq(ms, LAMBDA m : IsIndexKey(m.key)))
    \o SelectSeq(ms, LAMBDA m : ~IsIndexKey(m.key))

\* the texts of a sequence joined with commas
RECURSIVE JoinTexts(_)
JoinTexts(ts) ==
  IF ts = <<>> THEN <<>>
  ELSE IF Len(ts) = 1 THEN ts[1]
  ELSE ts[1] \o <<",">> \o JoinTexts(Tail(ts))

\* JSON.stringify of an object with the members ms
ObjectText(ms) ==
  LET inOrder == PropertyOrder(ms)
  IN <<"{">>
       \o JoinTexts([k \in 1..Len(inOrder) |->
                       <<"\"">> \o inOrder[k].key \o <<"\"", ":">> \o inOrder[k].text])
       \o <<"}">>

\* a string that starts with the quote at position j
ParseString(s, j) ==
  LET k == FirstAt(s, "\"", j + 1)
  IN IF k = 0 \/ \E m \in (j + 1)..(k - 1) : s[m] \in {"\t", "\n"}
     THEN JsonFail
     ELSE JsonOk(k + 1, SubSeq(s, j, k))

\* a number that starts with the digit at position j
ParseNumber(s, j) ==
  IF s[j] = "0" THEN JsonOk(j + 1, <<"0">>)
  ELSE JsonOk(DigitsEnd(s, j), SubSeq(s, j, DigitsEnd(s, j) - 1))

\* true, false or null at position j
ParseLiteral(s, j) ==
  IF \E lit \in JsonLiterals : StartsWith(SubSeq(s, j, Len(s)), lit)
  THEN LET lit == CHOOSE l \in JsonLiterals : StartsWith(SubSeq(s, j, Len(s)), l)
       IN JsonOk(j + Len(lit), lit)
  ELSE JsonFail

RECURSIVE ParseValue(_, _), ParseElements(_, _, _), ParseMembers(_, _, _)

\* a value at or after position i
ParseValue(s, i) ==
  LET j == SkipWs(s, i) IN
  IF j > Len(s) THEN JsonFail
  ELSE IF s[j] = "\"" THEN ParseString(s, j)
  ELSE IF s[j] \in JsonDigits THEN ParseNumber(s, j)
  ELSE IF s[j] = "[" THEN
         LET k == SkipWs(s, j + 1)
         IN IF k <= Len(s) /\ s[k] = "]" THEN JsonOk(k + 1, <<"[", "]">>)
            ELSE ParseElements(s, k, <<>>)
  ELSE IF s[j] = "{" THEN
         LET k == SkipWs(s, j + 1)
         IN IF k <= Len(s) /\ s[k] = "}" THEN JsonOk(k + 1, <<"{", "}">>)
            ELSE ParseMembers(s, k, <<>>)
  ELSE ParseLiteral(s, j)

\* the elements of an array from position i on, those before are in done
ParseElements(s, i, done) ==
  LET v == ParseValue(s, i)
      m == SkipWs(s, v.next)
  IN IF ~v.ok \/ m > Len(s) THEN JsonFail
     ELSE IF s[m] = "," THEN ParseElements(s, m + 1, Append(done, v.text))
     ELSE IF s[m] = "]"
          THEN JsonOk(m + 1, <<"[">> \o JoinTexts(Append(done, v.text)) \o <<"]">>)
     ELSE JsonFail

\* the members of an object from position i on, those before are in done
ParseMembers(s, i, done) ==
  LET j   == SkipWs(s, i)
      key == IF j <= Len(s) /\ s[j] = "\"" THEN ParseString(s, j) ELSE JsonFail
      c   == SkipWs(s, key.next)
      v   == IF key.ok /\ c <= Len(s) /\ s[c] = ":" THEN ParseValue(s, c + 1)
             ELSE JsonFail
      m   == SkipWs(s, v.next)
      ms  == PutMember(done, SubSeq(key.text, 2, Len(key.text) - 1), v.text)
  IN IF ~v.ok \/ m > Len(s) THEN JsonFail
     ELSE IF s[m] = "," THEN ParseMembers(s, m + 1, ms)
     ELSE IF s[m] = "}" THEN JsonOk(m + 1, ObjectText(ms))
     ELSE JsonFail

\* JSON.parse(text): the value, or a SyntaxError when the text is no value
\* or anything but white space follows it
JsonParse(text) ==
  LET v == ParseValue(text, 1)
  IN IF v.ok /\ SkipWs(text, v.next) > Len(text) THEN v ELSE JsonFail

-----------------------------------------------------------------------------
(* Inputs: the rows a CSV file can hold and the corpora the remote can hold *)

T_Hi    == <<"H", "i">>
T_hiTag == <<"<", "b", ">", "h", "i">>
T_Yo    == <<"Y", "o">>
T_Zz    == <<"Z", "z">>
S_s0    == <<"s", "0">>
S_s1    == <<"s", "1">>
Url_u   == <<"h", "t", "t", "p", ":", "/", "/", "u">>
File_f  == <<"f">>
File_g  == <<"g">>

\* the paths that exist below the script directory (fs.existsSync)
LocalFiles == {File_f}

\* a CSV record; a column that is absent reads as undefined, which every
\* test of the code treats as the empty string
Row(title, content, slug, categories, tags, imgPath, imgUrl) ==
  [title |-> title, content |-> content, status |-> "", slug |-> slug,
   categories |-> categories, tags |-> tags,
   featured_image_path |-> imgPath, featured_image_url |-> imgUrl,
   acf_json |-> <<>>, schema_json |-> <<>>]

\* the record with its acf_json and schema_json columns filled
WithJson(row, acf, schema) ==
  [row EXCEPT !.acf_json = acf, !.schema_json = schema]

RowPool ==
  { Row(T_Yo, <<"x">>, S_s1, <<"A", ",", " ", "b">>, <<>>, <<>>, <<>>),
    Row(T_hiTag, <<"x">>, S_s1, <<",">>, <<>>, File_f, <<>>),
    Row(T_Yo, <<"x">>, S_s0, <<>>, <<>>, <<>>, Url_u),
    Row(T_Hi, <<" ", "x">>, <<>>, <<>>, <<"b">>, File_g, Url_u),
    Row(<<" ">>, <<>>, S_s1, <<"b">>, <<>>, <<>>, <<>>),
    Row(T_Yo, <<"\t">>, <<>>, <<>>, <<>>, <<>>, <<>>) }

RECURSIVE SeqsUpTo(_, _)
SeqsUpTo(S, n) ==
  IF n = 0 THEN {<<>>}
  ELSE LET shorter == SeqsUpTo(S, n - 1)
       IN shorter \cup {Append(q, x) : q \in {t \in shorter : Len(t) = n - 1}, x \in S}

\* the contents a CSV file can have
CsvFiles == SeqsUpTo(RowPool, MaxRows)

\* a remote post; title is the rendered title the REST API returns
Post(id, title, slug, status) ==
  [id |-> id, title |-> title, slug |-> slug, status |-> status]

\* corpora the run can start against, newest post first
CorpusPool ==
  { <<Post(7, T_Hi, S_s0, "draft")>>,
    <<Post(8, <<>>, <<"e">>, "draft"), Post(7, T_Hi, S_s0, "publish")>>,
    <<Post(9, T_Zz, <<"z", "4">>, "publish"), Post(8, T_Zz, <<"z", "3">>, "publish"),
      Post(7, T_Zz, <<"z", "2">>, "publish"), Post(6, T_Zz, <<"z">>, "publish"),
      Post(5, T_Hi, S_s0, "private")>> }

Taxonomies == {"categories", "tags"}

Term(id, name) == [id |-> id, name |-> name]

InitTerms == [t \in Taxonomies |->
                IF t = "categories" THEN <<Term(5, <<"a">>)>> ELSE <<>>]

-----------------------------------------------------------------------------
(* Records of the program *)

NoError == "null"

\* NewResult with the loop index taken for the row number
NewResult_ZeroBased(row, rowNumber) ==
  [rowNumber |-> rowNumber - 1,
   title     |-> IF row.title # <<>> THEN row.title ELSE <<"Untitled">>,
   action    |-> "null", postId |-> 0, status |-> "null", error |-> NoError]

\* result of createOrUpdatePost as initialised on entry
NewResult(row, rowNumber) ==
  [rowNumber |-> rowNumber,
   title     |-> IF row.title # <<>> THEN row.title ELSE <<"Untitled">>,
   action    |-> "null", postId |-> 0, status |-> "null", error |-> NoError]

NoRow == Row(<<>>, <<>>, <<>>, <<>>, <<>>, <<>>, <<>>)

\* the payload; <<>> in acf and schema_json (meta._schema_json) stands for a
\* key that is not set
NoPostData ==
  [title |-> <<>>, content |-> <<>>, status |-> "", slug |-> <<>>,
   categories |-> <<>>, tags |-> <<>>, featured_media |-> 0,
   acf |-> <<>>, schema_json |-> <<>>]

NoSummary == [total |-> 0, success |-> 0, failed |-> 0, results |-> <<>>]

\* the locals of one batch run. entry is the function that runs it:
\* processCsvFile ("web", called by the server with an observer) or main
\* ("cli", no observer); throwsOn holds the types of notification on which
\* the observer throws; exit is the code the process exited with, when pc is
\* "exited". calls, faults, rowPosts and rowTerms record what the run did and
\* found, for the properties below
IdleRun ==
  [pc |-> "idle", entry |-> "web", throwsOn |-> {}, exit |-> 0,
   csv |-> <<>>, rows |-> <<>>, i |-> 0,
   row |-> NoRow, result |-> NewResult(NoRow, 0), postData |-> NoPostData,
   tax |-> "categories", names |-> <<>>, termIds |-> <<>>,
   imagePath |-> <<>>, page |-> 1, existingPostId |-> 0,
   notes |-> <<>>, summary |-> NoSummary, logWritten |-> FALSE,
   calls |-> <<>>, faults |-> <<>>, rowPosts |-> <<>>, rowTerms |-> InitTerms]

-----------------------------------------------------------------------------
(* The remote API, as the client observes it: posts of every status are    *)
(* returned by both queries, ids are assigned in increasing order, media   *)
(* share the id space of posts                                             *)

Min(a, b) == IF a <= b THEN a ELSE b

\* GET /posts?per_page=&page=&status=any&orderby=date&order=desc
PageOf(ps, page) == SubSeq(ps, (page - 1) * perPage + 1, Min(page * perPage, Len(ps)))

\* GET /posts?slug=&per_page=1
PostsBySlug(ps, slug) == SelectSeq(ps, LAMBDA p : p.slug = slug)

Digits == <<"1", "2", "3", "4", "5", "6", "7", "8", "9">>

\* the slug the remote stores: the requested one, or the requested one with
\* the first suffix -2, -3, ... that makes it unique
RECURSIVE UniqueSlug(_, _, _)
UniqueSlug(slug, ps, n) ==
  LET cand == IF n = 1 THEN slug ELSE slug \o <<"-", Digits[n]>>
  IN IF n < Len(Digits) /\ \E k \in 1..Len(ps) : ps[k].slug = cand
     THEN UniqueSlug(slug, ps, n + 1)
     ELSE cand

\* POST /posts: the post the remote stores for a payload
CreatedPost(ps, id, postData) ==
  Post(id, postData.title,
       UniqueSlug(IF postData.slug # <<>> THEN postData.slug
                  ELSE ToLowerCase(postData.title), ps, 1),
       postData.status)

\* POST /posts/{id}: the corpus after the remote applied the payload
UpdatedPosts(ps, id, postData) ==
  [k \in 1..Len(ps) |->
     IF ps[k].id = id
     THEN [ps[k] EXCEPT !.title = postData.title,
                        !.slug = IF postData.slug # <<>> THEN postData.slug ELSE @,
                        !.status = postData.status]
     ELSE ps[k]]

HasPost(ps, id) == \E k \in 1..Len(ps) : ps[k].id = id

-----------------------------------------------------------------------------
(* Progress notifications and the catch block of createOrUpdatePost. The   *)
(* observer server.js passes (broadcastProgress, which catches the         *)
(* failures of its own writes) does not throw; another caller of           *)
(* processCsvFile can pass one that does.                                   *)

Note(type, what, rowNumber, postId) ==
  [type |-> type, what |-> what, rowNumber |-> rowNumber, postId |-> postId]

\* if (progressCallback) progressCallback(note)
Notify(s, note) ==
  IF s.entry = "web" THEN [s EXCEPT !.notes = Append(@, note)] ELSE s

\* the observer throws when it is given a notification of the type
Throws(s, type) == s.entry = "web" /\ type \in s.throwsOn

\* FailRow with a detected duplicate only reported: the row goes on to its write
FailRow_ReportOnly(s, message) ==
  [s EXCEPT !.result.error = message,
            !.notes = Append(@, Note("error", message, s.result.rowNumber, 0)),
            !.pc = IF message = "Post with title already exists. Duplicate posts are not allowed."
                   THEN "write" ELSE "rowDone"]

\* FailRow with the error thrown on to the caller of createOrUpdatePost
FailRow_Rethrow(s, message) ==
  [s EXCEPT !.result.error = message, !.pc = "aborted"]

\* FailRow with a rejected post write issued a second time
FailRow_RetryWrite(s, message) ==
  IF message = "Request failed with status code: response body"
     /\ Len(SelectSeq(s.calls, LAMBDA c : c \in {"postCreate", "postUpdate"})) < 2
  THEN [s EXCEPT !.pc = "write"]
  ELSE [Notify([s EXCEPT !.result.error = message],
               Note("error", message, s.result.rowNumber, 0))
          EXCEPT !.pc = "rowDone"]

\* catch (error) of createOrUpdatePost; an observer that throws here throws
\* out of createOrUpdatePost and of the run
FailRow(s, message) ==
  [Notify([s EXCEPT !.result.error = message],
          Note("error", message, s.result.rowNumber, 0))
     EXCEPT !.pc = IF Throws(s, "error") THEN "aborted" ELSE "rowDone"]

-----------------------------------------------------------------------------
(* createOrUpdatePost between its awaits *)

\* the title scan is entered: findPostByTitle(postData.title), page = 1
EnterTitle(s) == [s EXCEPT !.pc = "titleScan", !.page = 1]

IsUrl(path) ==
  \/ StartsWith(Trim(path), <<"h","t","t","p",":","/","/">>)
  \/ StartsWith(Trim(path), <<"h","t","t","p","s",":","/","/">>)

\* row.featured_image_path?.trim() || row.featured_image_url?.trim()
ImagePathOf(row) ==
  IF Trim(row.featured_image_path) # <<>>
  THEN Trim(row.featured_image_path)
  ELSE Trim(row.featured_image_url)

\* EnterMedia with a missing local file thrown as an error
EnterMedia_MissingFileThrows(s) ==
  LET imagePath == ImagePathOf(s.row)
  IN IF imagePath = <<>> THEN EnterTitle(s)
     ELSE IF IsUrl(imagePath)
          THEN [s EXCEPT !.pc = "download", !.imagePath = imagePath]
          ELSE IF imagePath \in LocalFiles
               THEN [s EXCEPT !.pc = "readFile", !.imagePath = imagePath]
               ELSE FailRow(s, "ENOENT: no such file or directory")

\* featured image: uploadMedia up to its first remote call or file read
EnterMedia(s) ==
  LET imagePath == ImagePathOf(s.row)
  IN IF imagePath = <<>> THEN EnterTitle(s)
     ELSE IF IsUrl(imagePath)
          THEN [s EXCEPT !.pc = "download", !.imagePath = imagePath]
          ELSE IF imagePath \in LocalFiles
               THEN [s EXCEPT !.pc = "readFile", !.imagePath = imagePath]
               ELSE EnterTitle(s)

\* resolveTerms(row.tags, 'tags') up to its first remote call
EnterTags(s) ==
  IF Trim(s.row.tags) # <<>> /\ SplitNames(s.row.tags) # <<>>
  THEN [s EXCEPT !.pc = "termSearch", !.tax = "tags",
                 !.names = SplitNames(s.row.tags), !.termIds = <<>>]
  ELSE EnterMedia(s)

\* resolveTerms(row.categories, 'categories') up to its first remote call
EnterCategories(s) ==
  IF Trim(s.row.categories) # <<>> /\ SplitNames(s.row.categories) # <<>>
  THEN [s EXCEPT !.pc = "termSearch", !.tax = "categories",
                 !.names = SplitNames(s.row.categories), !.termIds = <<>>]
  ELSE EnterTags(s)

\* resolveTerms returned: the ids go into the payload when there are any
FinishTerms(s) ==
  LET withIds == IF s.termIds = <<>> THEN s
                 ELSE IF s.tax = "categories"
                      THEN [s EXCEPT !.postData.categories = s.termIds]
                      ELSE [s EXCEPT !.postData.tags = s.termIds]
  IN IF s.tax = "categories" THEN EnterTags(withIds) ELSE EnterMedia(withIds)

\* AfterName with a failed resolution thrown on to createOrUpdatePost
AfterName_Throw(s, id) ==
  LET t == [s EXCEPT !.termIds = IF id # 0 THEN Append(@, id) ELSE @,
                     !.calls = Append(@, "delay"),
                     !.names = Tail(@)]
  IN IF id = 0 THEN FailRow(s, "Failed to get/create term")
     ELSE IF t.names = <<>> THEN FinishTerms(t) ELSE [t EXCEPT !.pc = "termSearch"]

\* AfterName with the id put in front of the ids found so far
AfterName_Unshift(s, id) ==
  LET t == [s EXCEPT !.termIds = IF id # 0 THEN <<id>> \o @ ELSE @,
                     !.calls = Append(@, "delay"),
                     !.names = Tail(@)]
  IN IF t.names = <<>> THEN FinishTerms(t) ELSE [t EXCEPT !.pc = "termSearch"]

\* the rest of one iteration of resolveTerms' loop, getOrCreateTerm having
\* returned id (0 for null)
AfterName(s, id) ==
  LET t == [s EXCEPT !.termIds = IF id # 0 THEN Append(@, id) ELSE @,
                     !.calls = Append(@, "delay"),
                     !.names = Tail(@)]
  IN IF t.names = <<>> THEN FinishTerms(t) ELSE [t EXCEPT !.pc = "termSearch"]

\* AfterTitle with a row that has no slug written over the newest post
AfterTitle_UpdatesNewest(s) ==
  IF s.postData.slug # <<>>
  THEN [s EXCEPT !.pc = "slugLookup", !.existingPostId = 0]
  ELSE [s EXCEPT !.pc = "write",
                 !.existingPostId = IF s.rowPosts # <<>> THEN Head(s.rowPosts).id ELSE 0]

\* findPostByTitle returned null: the slug lookup, when the payload has a slug
AfterTitle(s) ==
  IF s.postData.slug # <<>>
  THEN [s EXCEPT !.pc = "slugLookup", !.existingPostId = 0]
  ELSE [s EXCEPT !.pc = "write", !.existingPostId = 0]

\* the loop over one page of findPostByTitle: "match" with the id of the first
\* post whose normalized title equals the needle, "throw" when a post before
\* it has an empty rendered title (post.title, an object, is then passed to
\* normalizeTitle, whose str.replace is not a function), "none" otherwise
RECURSIVE ScanPosts(_, _)
ScanPosts(data, needle) ==
  IF data = <<>> THEN [kind |-> "none", id |-> 0]
  ELSE IF Head(data).title = <<>> THEN [kind |-> "throw", id |-> 0]
  ELSE IF normalizeTitle(Head(data).title) = needle
       THEN [kind |-> "match", id |-> Head(data).id]
       ELSE ScanPosts(Tail(data), needle)

ErrMissingTitle   == "Missing required field: title"
ErrMissingContent == "Missing required field: content"
ErrDuplicate      == "Post with title already exists. Duplicate posts are not allowed."
ErrRejected       == "Request failed with status code: response body"
ErrTimeout        == "timeout of 30000ms exceeded"
ErrRead           == "EISDIR: illegal operation on a directory, read"
ErrObserver       == "error thrown by progressCallback"

-----------------------------------------------------------------------------
(* Actions *)

Set(r, s) == run' = [run EXCEPT ![r] = s] /\ UNCHANGED <<pure, web>>

Remote == <<posts, terms, media, nextPostId, nextTermId>>

\* processCsvFile(csvPath) is called: the globals are reset, the observer
\* told and the pre-flight issued; main() issues the pre-flight
StartRun(r) ==
  LET s == [IdleRun EXCEPT !.csv = run[r].csv, !.entry = run[r].entry,
                           !.throwsOn = run[r].throwsOn]
  IN
  /\ run[r].pc = "idle"
  /\ Set(r, [Notify(s, Note("info", "checking", 0, 0))
               EXCEPT !.pc = IF Throws(s, "info") THEN "aborted" ELSE "connect"])
  /\ logResults' = IF s.entry = "web" THEN <<>> ELSE logResults
  /\ UNCHANGED Remote

\* ConnectivityFailed with the result of checkConnectivity not looked at
ConnectivityFailed_Ignored(s) ==
  [s EXCEPT !.pc = "load", !.faults = Append(@, "connect")]

\* checkConnectivity returned false: processCsvFile throws, main exits with
\* code 1
ConnectivityFailed(s) ==
  IF s.entry = "web"
  THEN [s EXCEPT !.pc = "aborted", !.faults = Append(@, "connect")]
  ELSE [s EXCEPT !.pc = "exited", !.exit = 1, !.faults = Append(@, "connect")]

\* checkConnectivity: GET /posts?per_page=1
CheckConnectivity(r) ==
  LET s == run[r] IN
  /\ s.pc = "connect"
  /\ \E ok \in BOOLEAN :
       Set(r, IF ok
              THEN [Notify(Notify(s, Note("info", "accessible", 0, 0)),
                           Note("info", "loading", 0, 0))
                      EXCEPT !.pc = "load", !.calls = Append(@, "connect")]
              ELSE ConnectivityFailed([s EXCEPT !.calls = Append(@, "connect")]))
  /\ UNCHANGED <<Remote, logResults>>

\* loadCsv failed, or the file holds no rows: processCsvFile throws in both
\* cases, main exits with code 1 in the first and with code 0 in the second
LoadFailed(s, readable) ==
  LET t == IF readable THEN s ELSE [s EXCEPT !.faults = Append(@, "load")]
  IN IF s.entry = "web" THEN [t EXCEPT !.pc = "aborted"]
     ELSE [t EXCEPT !.pc = "exited", !.exit = IF readable THEN 0 ELSE 1]

\* loadCsv and the checks that follow it
LoadCsv(r) ==
  LET s == run[r] IN
  /\ s.pc = "load"
  /\ \E readable \in BOOLEAN :
       Set(r, IF ~readable \/ Len(s.csv) = 0
              THEN LoadFailed(s, readable)
              ELSE [Notify(Notify(s, Note("info", "loaded", 0, 0)),
                           Note("info", "starting", 0, 0))
                      EXCEPT !.pc = "row", !.rows = s.csv, !.i = 0])
  /\ UNCHANGED <<Remote, logResults>>

\* JsonField with the SyntaxError of JSON.parse not caught: "throw" where
\* the text does not parse
JsonField_Uncaught(text) ==
  IF Trim(text) = <<>> THEN <<>>
  ELSE IF JsonParse(text).ok THEN JsonParse(text).text
  ELSE <<"t", "h", "r", "o", "w">>

\* what a JSON column gives the payload: the parsed value, nothing when the
\* column is blank or JSON.parse throws (the catch logs and goes on)
JsonField(text) ==
  IF Trim(text) # <<>> /\ JsonParse(text).ok THEN JsonParse(text).text ELSE <<>>

\* the payload createOrUpdatePost builds before its first await
BuildPostData(row) ==
  [NoPostData EXCEPT !.title = Trim(row.title),
                     !.content = Trim(row.content),
                     !.status = IF row.status # "" THEN row.status ELSE DEFAULT_STATUS,
                     !.slug = Trim(row.slug),
                     !.schema_json = JsonField(row.schema_json),
                     !.acf = JsonField(row.acf_json)]

\* Validate without the trim: a whitespace-only field passes
Validate_NoTrim(row) ==
  IF row.title = <<>> THEN ErrMissingTitle
  ELSE IF row.content = <<>> THEN ErrMissingContent
  ELSE NoError

\* validation of the required fields: the message thrown, NoError when valid
Validate(row) ==
  IF Trim(row.title) = <<>> THEN ErrMissingTitle
  ELSE IF Trim(row.content) = <<>> THEN ErrMissingContent
  ELSE NoError

\* createOrUpdatePost(rows[i], i + 1) up to its first remote call
BeginRow(r) ==
  LET s   == run[r]
      row == s.rows[s.i + 1]
      t   == [s EXCEPT !.row = row, !.result = NewResult(row, s.i + 1),
                       !.postData = NoPostData, !.calls = <<>>, !.faults = <<>>,
                       !.rowPosts = posts, !.rowTerms = terms,
                       !.existingPostId = 0,
                       !.names = <<>>, !.termIds = <<>>, !.imagePath = <<>>]
  IN
  /\ s.pc = "row"
  /\ Set(r, IF Validate(row) # NoError
            THEN FailRow(t, Validate(row))
            ELSE EnterCategories([t EXCEPT !.postData = BuildPostData(row)]))
  /\ UNCHANGED <<Remote, logResults>>

\* ExistingTerm comparing the names as they are
ExistingTerm_CaseSensitive(data, trimmedName) ==
  LET hits == SelectSeq(data, LAMBDA term : term.name = trimmedName)
  IN IF hits = <<>> THEN 0 ELSE Head(hits).id

\* the existing term getOrCreateTerm finds in a search response, 0 when none
ExistingTerm(data, trimmedName) ==
  LET hits == SelectSeq(data, LAMBDA term :
                ToLowerCase(term.name) = ToLowerCase(trimmedName))
  IN IF hits = <<>> THEN 0 ELSE Head(hits).id

\* getOrCreateTerm: GET /{taxonomy}?search=&per_page=100; the response holds
\* every term of the taxonomy the search matches (they are fewer than a
\* page), the term of that name among them
TermSearch(r) ==
  LET s    == run[r]
      name == Head(s.names)
      c    == [s EXCEPT !.calls = Append(@, "termSearch")]
  IN
  /\ s.pc = "termSearch"
  /\ \E ok \in BOOLEAN :
       Set(r, IF ~ok
              THEN AfterName([c EXCEPT !.faults = Append(@, "termSearch")], 0)
              ELSE IF ExistingTerm(terms[s.tax], name) # 0
                   THEN AfterName(c, ExistingTerm(terms[s.tax], name))
                   ELSE [c EXCEPT !.pc = "termCreate"])
  /\ UNCHANGED <<Remote, logResults>>

\* the calls getOrCreateTerm makes to create a term
TermCreateCalls == <<"delay", "termCreate">>

\* getOrCreateTerm: sleep, then POST /{taxonomy}
TermCreate(r) ==
  LET s    == run[r]
      name == Head(s.names)
      c    == [s EXCEPT !.calls = @ \o TermCreateCalls]
  IN
  /\ s.pc = "termCreate"
  /\ \E ok \in BOOLEAN :
       IF ok
       THEN /\ terms' = [terms EXCEPT ![s.tax] = Append(@, Term(nextTermId, name))]
            /\ nextTermId' = nextTermId + 1
            /\ Set(r, AfterName(c, nextTermId))
       ELSE /\ UNCHANGED <<terms, nextTermId>>
            /\ Set(r, AfterName([c EXCEPT !.faults = Append(@, "termCreate")], 0))
  /\ UNCHANGED <<posts, media, nextPostId, logResults>>

\* downloadImageFromUrl: GET of the image URL
DownloadImage(r) ==
  LET s == run[r]
      c == [s EXCEPT !.calls = Append(@, "download")]
  IN
  /\ s.pc = "download"
  /\ \E ok \in BOOLEAN :
       Set(r, IF ok THEN [c EXCEPT !.pc = "upload"]
              ELSE EnterTitle([c EXCEPT !.faults = Append(@, "download")]))
  /\ UNCHANGED <<Remote, logResults>>

\* uploadMedia, local path: fs.readFileSync of a path that exists; it is
\* called outside the try of uploadMedia, so when it throws (a directory, a
\* file that may not be read) the catch of createOrUpdatePost gets the error
ReadImage(r) ==
  LET s == run[r] IN
  /\ s.pc = "readFile"
  /\ \E ok \in BOOLEAN :
       Set(r, IF ok THEN [s EXCEPT !.pc = "upload"]
              ELSE FailRow([s EXCEPT !.faults = Append(@, "readFile")], ErrRead))
  /\ UNCHANGED <<Remote, logResults>>

\* the calls uploadMedia makes to store the image
MediaUploadCalls == <<"delay", "mediaUpload">>

\* uploadMedia: sleep, then POST /media
UploadMedia(r) ==
  LET s == run[r]
      c == [s EXCEPT !.calls = @ \o MediaUploadCalls]
  IN
  /\ s.pc = "upload"
  /\ \E ok \in BOOLEAN :
       IF ok
       THEN /\ media' = media \cup {nextPostId}
            /\ nextPostId' = nextPostId + 1
            /\ Set(r, EnterTitle([c EXCEPT !.postData.featured_media = nextPostId]))
       ELSE /\ UNCHANGED <<media, nextPostId>>
            /\ Set(r, EnterTitle([c EXCEPT !.faults = Append(@, "mediaUpload")]))
  /\ UNCHANGED <<posts, terms, nextTermId, logResults>>

\* NextPage without the limit on the number of pages
NextPage_NoCap(s, data) ==
  IF Len(data) < perPage THEN AfterTitle(s) ELSE [s EXCEPT !.page = @ + 1]

\* findPostByTitle after a page that held no match: the next page, or the end
\* of the scan
NextPage(s, data) ==
  IF Len(data) < perPage THEN AfterTitle(s)
  ELSE IF s.page + 1 > MaxPages THEN AfterTitle([s EXCEPT !.page = @ + 1])
  ELSE [s EXCEPT !.page = @ + 1]

\* findPostByTitle failed (request error or exception): what its caller gets
TitleScanFailed(s) == AfterTitle(s)

\* findPostByTitle: one GET /posts page and the loop over its posts
TitleScanPage(r) ==
  LET s    == run[r]
      c    == [s EXCEPT !.calls = Append(@, "titlePage")]
      data == PageOf(posts, s.page)
      hit  == ScanPosts(data, normalizeTitle(s.postData.title))
  IN
  /\ s.pc = "titleScan"
  /\ \E ok \in BOOLEAN :
       Set(r, IF ~ok
              THEN TitleScanFailed([c EXCEPT !.faults = Append(@, "titlePage")])
              ELSE IF data = <<>> THEN AfterTitle(c)
              ELSE IF hit.kind = "throw"
                   THEN TitleScanFailed([c EXCEPT !.faults = Append(@, "titleThrow")])
              ELSE IF hit.kind = "match" THEN FailRow(c, ErrDuplicate)
              ELSE NextPage(c, data))
  /\ UNCHANGED <<Remote, logResults>>

\* findPostBySlug failed: what its caller gets
SlugLookupFailed(s) == [s EXCEPT !.pc = "write", !.existingPostId = 0]

\* findPostBySlug: GET /posts?slug=
SlugLookup(r) ==
  LET s    == run[r]
      c    == [s EXCEPT !.calls = Append(@, "slugLookup")]
      data == PostsBySlug(posts, Trim(s.postData.slug))
  IN
  /\ s.pc = "slugLookup"
  /\ \E ok \in BOOLEAN :
       Set(r, IF ~ok
              THEN SlugLookupFailed([c EXCEPT !.faults = Append(@, "slugLookup")])
              ELSE [c EXCEPT !.pc = "write",
                             !.existingPostId = IF data # <<>> THEN Head(data).id ELSE 0])
  /\ UNCHANGED <<Remote, logResults>>

\* PostWriteCalls without the sleep before the write
PostWriteCalls_NoSleep(existingPostId) ==
  <<IF existingPostId # 0 THEN "postUpdate" ELSE "postCreate">>

\* the calls of the create-or-update step: sleep, then the write it chose
PostWriteCalls(existingPostId) ==
  <<"delay", IF existingPostId # 0 THEN "postUpdate" ELSE "postCreate">>

\* WriteDone with the next row begun as soon as the write is answered, its
\* result not yet returned
WriteDone_StartsNextRow(s, action, post) ==
  LET t == Notify([s EXCEPT !.result.action = action, !.result.postId = post.id,
                            !.result.status = post.status],
                  Note("success", action, s.result.rowNumber, post.id))
  IN IF s.i + 1 < Len(s.rows) THEN [t EXCEPT !.pc = "row", !.i = @ + 1]
     ELSE [t EXCEPT !.pc = "rowDone"]

\* the write succeeded: result is filled from the response and the observer
\* told, inside the try of createOrUpdatePost
WriteDone(s, action, post) ==
  LET t == Notify([s EXCEPT !.result.action = action, !.result.postId = post.id,
                            !.result.status = post.status],
                  Note("success", action, s.result.rowNumber, post.id))
  IN IF Throws(s, "success")
     THEN FailRow([t EXCEPT !.faults = Append(@, "observer")], ErrObserver)
     ELSE [t EXCEPT !.pc = "rowDone"]

WriteOutcomes == {"ok", "rejected", "lost"}

\* createOrUpdatePost: sleep, then POST /posts/{id} or POST /posts.
\* "rejected": a non-2xx response with a body; "lost": the remote applied the
\* write and the response did not arrive within the timeout
PostWrite(r) ==
  LET s       == run[r]
      c       == [s EXCEPT !.calls = @ \o PostWriteCalls(s.existingPostId)]
      created == CreatedPost(posts, nextPostId, s.postData)
      updated == UpdatedPosts(posts, s.existingPostId, s.postData)
      isUpdate == s.existingPostId # 0
  IN
  /\ s.pc = "write"
  /\ \E out \in WriteOutcomes :
       IF out = "rejected" \/ (isUpdate /\ ~HasPost(posts, s.existingPostId))
       THEN /\ Set(r, FailRow([c EXCEPT !.faults = Append(@, "write")], ErrRejected))
            /\ UNCHANGED <<posts, nextPostId>>
       ELSE /\ IF isUpdate
               THEN posts' = updated /\ UNCHANGED nextPostId
               ELSE posts' = <<created>> \o posts /\ nextPostId' = nextPostId + 1
            /\ Set(r, IF out = "lost"
                      THEN FailRow([c EXCEPT !.faults = Append(@, "write")], ErrTimeout)
                      ELSE IF isUpdate
                           THEN WriteDone(c, "updated",
                                  CHOOSE p \in {updated[k] : k \in 1..Len(updated)} :
                                    p.id = s.existingPostId)
                           ELSE WriteDone(c, "created", created))
  /\ UNCHANGED <<terms, media, nextTermId, logResults>>

\* logResults.filter(r => !r.error).length
SuccessCount(results) == Len(SelectSeq(results, LAMBDA x : x.error = NoError))

\* FailedCount with a filter that every result passes (r.error !== undefined)
FailedCount_NotUndefined(results) == Len(results)

\* logResults.filter(r => r.error).length
FailedCount(results) == Len(SelectSeq(results, LAMBDA x : x.error # NoError))

\* the value processCsvFile returns
Summary(rows, results) ==
  [total |-> Len(rows), success |-> SuccessCount(results),
   failed |-> FailedCount(results), results |-> results]

\* createOrUpdatePost returned: its locals are gone
Returned(s) ==
  [IdleRun EXCEPT !.csv = s.csv, !.rows = s.rows, !.i = s.i, !.notes = s.notes,
                  !.entry = s.entry, !.throwsOn = s.throwsOn]

\* the end of the run after the last row. processCsvFile writes the log
\* inside a try and returns the summary; main writes the log outside any
\* try, so a failure rejects main(), whose catch exits with code 1 (lines
\* 728-731), and otherwise prints the summary and exits with
\* failedCount > 0 ? 1 : 0
EndRun(s, results, writable) ==
  IF s.entry = "web"
  THEN [s EXCEPT !.pc = "done", !.logWritten = writable,
                 !.summary = Summary(s.rows, results)]
  ELSE IF writable
       THEN [s EXCEPT !.pc = "exited", !.logWritten = TRUE,
                      !.summary = Summary(s.rows, results),
                      !.exit = IF FailedCount(results) > 0 THEN 1 ELSE 0]
       ELSE [s EXCEPT !.pc = "exited", !.exit = 1]

\* the loop of the run after createOrUpdatePost returned: the result is
\* pushed; after the last row the log is written and the run ends
FinishRow(r) ==
  LET s == run[r] IN
  /\ s.pc = "rowDone"
  /\ logResults' = Append(logResults, s.result)
  /\ IF s.i + 1 < Len(s.rows)
     THEN Set(r, [Returned(s) EXCEPT !.pc = "row", !.i = @ + 1])
     ELSE \E writable \in BOOLEAN :
            Set(r, EndRun([Returned(s) EXCEPT !.i = @ + 1], logResults', writable))
  /\ UNCHANGED Remote

-----------------------------------------------------------------------------
(* The web server (server.js): the session store, the auth tokens, the      *)
(* authentication middleware and the registry of progress streams.          *)
(* Express runs a handler that does not await to its end, so a request is   *)
(* one action. Date.now() is the field now, which Tick advances. A session  *)
(* id that is absent from a request is 0, a token that is absent NoToken.   *)

\* maxAge of a login without and with 'remember me': 24 hours and 30 days in
\* the source, scaled to ticks of the clock
DayAge == 1

ForeverAge == 2

AUTH_PASSWORD == <<"p", "w">>

\* AUTH_PASSWORD + '_auth_secret'
AUTH_SECRET ==
  AUTH_PASSWORD \o <<"_", "a", "u", "t", "h", "_", "s", "e", "c", "r", "e", "t">>

EndsWith(s, p) == Len(s) >= Len(p) /\ SubSeq(s, Len(s) - Len(p) + 1, Len(s)) = p

\* Buffer.from(text).toString('base64') and Buffer.from(token, 'base64')
\* .toString('utf-8'): the token is the text in another alphabet, and
\* decoding gives the text back
Base64(text) == [base64 |-> text]

FromBase64(token) == token.base64

NoToken == [base64 |-> <<>>]

\* generateAuthToken at the time now with the random part random
generateAuthToken(now, random) ==
  Base64(<<Digits[now + 1], "-", random, "-">> \o AUTH_SECRET)

validateAuthToken(token) ==
  /\ token # NoToken
  /\ EndsWith(FromBase64(token), <<"-">> \o AUTH_SECRET)

\* the paths requireAuth lets through without looking at the credentials
OpenPaths == {"/login", "/login.html", "/login.css", "/login.js", "/health"}

\* a request: its path, the cookie sessionId, the header x-session-id and the
\* cookie authToken
Request(path, cookie, header, authToken) ==
  [path |-> path, cookie |-> cookie, header |-> header, authToken |-> authToken]

NoRequest == Request("", 0, 0, NoToken)

\* req.cookies?.sessionId || req.headers['x-session-id']
SessionIdOf(req) == IF req.cookie # 0 THEN req.cookie ELSE req.header

\* sessions.delete(sessionId)
Without(sessions, sessionId) ==
  [k \in DOMAIN sessions \ {sessionId} |-> sessions[k]]

\* sessions.set(sessionId, session)
With(sessions, sessionId, session) ==
  [k \in DOMAIN sessions \cup {sessionId} |->
     IF k = sessionId THEN session ELSE sessions[k]]

NoSessions == [k \in {} |-> 0]

\* the state of the server when it starts
NoWeb ==
  [vercel |-> FALSE, now |-> 0, logins |-> 0, sessions |-> NoSessions,
   tokens |-> {}, loggedOut |-> [sessionIds |-> {}, tokens |-> {}],
   conns |-> <<>>, sseConnections |-> NoSessions, uploads |-> {},
   last |-> [path |-> "", sessionId |-> 0, authToken |-> NoToken,
             reached |-> FALSE, n |-> 0]]

\* requireAuth passing a session whatever its expiresAt
requireAuth_NoExpiry(w, req) ==
  IF req.path \in OpenPaths THEN [next |-> TRUE, sessions |-> w.sessions]
  ELSE IF w.vercel
       THEN [next |-> validateAuthToken(req.authToken), sessions |-> w.sessions]
       ELSE [next |-> SessionIdOf(req) \in DOMAIN w.sessions, sessions |-> w.sessions]

\* requireAuth: whether next() is called, and the session store it leaves
requireAuth(w, req) ==
  LET sessionId == SessionIdOf(req) IN
  IF req.path \in OpenPaths THEN [next |-> TRUE, sessions |-> w.sessions]
  ELSE IF w.vercel
       THEN [next |-> validateAuthToken(req.authToken), sessions |-> w.sessions]
       ELSE IF sessionId # 0 /\ sessionId \in DOMAIN w.sessions
            THEN IF w.sessions[sessionId].expiresAt > w.now
                 THEN [next |-> TRUE, sessions |-> w.sessions]
                 ELSE [next |-> FALSE, sessions |-> Without(w.sessions, sessionId)]
            ELSE [next |-> FALSE, sessions |-> w.sessions]

\* what the server does not touch
Uploader == <<posts, terms, media, nextPostId, nextTermId, logResults, run, pure>>

\* the server after requireAuth has looked at the request; last is the
\* request, with the session id and the token it presented, and whether it
\* got to the handler of its path
Authed(req) ==
  [web EXCEPT !.sessions = requireAuth(web, req).sessions,
              !.last = [path |-> req.path, sessionId |-> SessionIdOf(req),
                        authToken |-> req.authToken,
                        reached |-> requireAuth(web, req).next, n |-> 1 - @.n]]

\* the session ids and the tokens a client may present: those the server
\* gave out, and others
SessionIds == 0..MaxLogins

ForgedTokens ==
  { Base64(<<"x", "-">> \o AUTH_SECRET), Base64(<<"1", "-", "a", "-", "p", "w">>) }

Randoms == {"a"}

\* the header x-session-id: absent, or the first session id
HeaderIds == {0, 1}

\* the requests for a path: with a session id in the cookie, in the header
\* or in both and no token, with a token and no session id, and with the
\* first session id and a token
Requests(path) ==
  {Request(path, c, h, NoToken) : c \in SessionIds, h \in HeaderIds}
    \cup {Request(path, c, 0, t) : c \in {0, 1}, t \in web.tokens \cup ForgedTokens}

\* the session ids of progress streams and uploads, which the client chooses
StreamIds == {"s1", "s2"}

\* Date.now() moves on
Tick ==
  /\ web.now < MaxTime
  /\ web' = [web EXCEPT !.now = @ + 1]
  /\ UNCHANGED Uploader

\* POST /login with the right username and password (with others the answer
\* is 401 and nothing changes): a token is handed out, or a session is
\* stored under a new session id (of a session only expiresAt is ever read)
Login ==
  \E rememberme \in BOOLEAN, random \in Randoms :
    LET maxAge == IF rememberme THEN ForeverAge ELSE DayAge IN
    /\ web.logins < MaxLogins
    /\ web' = IF web.vercel
              THEN [web EXCEPT !.logins = @ + 1,
                               !.tokens = @ \cup {generateAuthToken(web.now, random)}]
              ELSE [web EXCEPT !.logins = @ + 1,
                               !.sessions = With(@, web.logins + 1,
                                                 [expiresAt |-> web.now + maxAge])]
    /\ UNCHANGED Uploader

\* POST /logout: the session of the cookie sessionId is deleted; loggedOut
\* keeps the credentials of the request that a login had handed out
Logout ==
  \E req \in Requests("/logout") :
    /\ req.header = 0
    /\ req.cookie # 0 \/ req.authToken # NoToken
    /\ web' = [web EXCEPT
                 !.sessions = IF req.cookie # 0 THEN Without(@, req.cookie) ELSE @,
                 !.loggedOut.sessionIds = @ \cup ({req.cookie} \cap 1..web.logins),
                 !.loggedOut.tokens = @ \cup ({req.authToken} \cap web.tokens)]
    /\ UNCHANGED Uploader

\* the hourly clean-up (not on Vercel): the sessions past their expiresAt go
Sweep ==
  LET expired == {k \in DOMAIN web.sessions : web.sessions[k].expiresAt < web.now} IN
  /\ ~web.vercel /\ expired # {}
  /\ web' = [web EXCEPT !.sessions = [k \in DOMAIN @ \ expired |-> @[k]]]
  /\ UNCHANGED Uploader

\* a request for the main page, for an upload or for /health, as far as
\* requireAuth
Get ==
  \E path \in {"/", "/upload", "/health"} :
    \E req \in Requests(path) :
      /\ path \in OpenPaths => req = Request(path, 0, 0, NoToken)
      /\ web' = Authed(req)
      /\ UNCHANGED Uploader

\* sseConnections after the close handler of connection res of the session
CloseHandler_KeepsList(sse, sessionId, res) ==
  IF sessionId \in DOMAIN sse
  THEN With(sse, sessionId, SelectSeq(sse[sessionId], LAMBDA c : c # res))
  ELSE sse

\* req.on('close'): the connection is taken out of the list of its session,
\* and the list out of the registry when it is empty
CloseHandler(sse, sessionId, res) ==
  IF sessionId \in DOMAIN sse
  THEN LET rest == SelectSeq(sse[sessionId], LAMBDA c : c # res)
       IN IF rest = <<>> THEN Without(sse, sessionId) ELSE With(sse, sessionId, rest)
  ELSE sse

\* GET /progress/:sessionId: the response is registered under the session id
OpenStream ==
  \E sessionId \in StreamIds : \E req \in Requests("/progress/") :
    LET a   == Authed(req)
        res == Len(web.conns) + 1
    IN
    /\ Len(web.conns) < MaxConns
    /\ web' = IF ~a.last.reached THEN a
              ELSE [a EXCEPT
                      !.conns = Append(@, [sessionId |-> sessionId, open |-> TRUE,
                                           got |-> {}]),
                      !.sseConnections =
                         With(@, sessionId,
                              (IF sessionId \in DOMAIN @ THEN @[sessionId] ELSE <<>>)
                                \o <<res>>)]
    /\ UNCHANGED Uploader

\* the client closes a progress stream
CloseStream ==
  \E res \in 1..Len(web.conns) :
    /\ web.conns[res].open
    /\ web' = [web EXCEPT
                 !.conns[res].open = FALSE,
                 !.sseConnections = CloseHandler(@, web.conns[res].sessionId, res)]
    /\ UNCHANGED Uploader

\* POST /upload: processCsvFile is started with a callback that broadcasts
\* under the session id of the form
Upload ==
  \E sessionId \in StreamIds : \E req \in Requests("/upload") :
    LET a == Authed(req) IN
    /\ web' = IF a.last.reached THEN [a EXCEPT !.uploads = @ \cup {sessionId}] ELSE a
    /\ UNCHANGED Uploader

\* broadcastProgress(sessionId, progress) of a run: the notification is
\* written to the connections registered under the session id
Broadcast ==
  \E sessionId \in web.uploads :
    LET connections == IF sessionId \in DOMAIN web.sseConnections
                       THEN web.sseConnections[sessionId] ELSE <<>>
        to == {connections[k] : k \in 1..Len(connections)}
    IN
    /\ web' = [web EXCEPT !.conns =
                 [c \in 1..Len(@) |->
                    IF c \in to THEN [@[c] EXCEPT !.got = @ \cup {sessionId}] ELSE @[c]]]
    /\ UNCHANGED Uploader

\* processCsvFile returned or threw: the answer of POST /upload is sent
UploadDone ==
  \E sessionId \in web.uploads :
    /\ web' = [web EXCEPT !.uploads = @ \ {sessionId}]
    /\ UNCHANGED Uploader

NextAuth ==
  \/ Tick
  \/ Login
  \/ Logout
  \/ Sweep
  \/ Get

NextStream ==
  \/ OpenStream
  \/ CloseStream
  \/ Upload
  \/ Broadcast
  \/ UploadDone

-----------------------------------------------------------------------------
(* Specifications *)

\* no function is being checked on its own
NoPure == [arg |-> <<>>, val |-> <<>>, n |-> 0]

\* the state before processCsvFile is called on a file, against a corpus
InitWith(corpora, files) ==
  /\ posts \in corpora
  /\ terms = InitTerms
  /\ media = {}
  /\ nextPostId = 10
  /\ nextTermId = 6
  /\ logResults = <<>>
  /\ pure = NoPure
  /\ web = NoWeb
  /\ \E f \in files :
       run = [r \in Runs |-> IF r \in BatchRuns THEN [IdleRun EXCEPT !.csv = f]
                                                ELSE IdleRun]

Init == InitWith(CorpusPool, CsvFiles)

Step(r) ==
  \/ StartRun(r)
  \/ CheckConnectivity(r)
  \/ LoadCsv(r)
  \/ BeginRow(r)
  \/ TermSearch(r)
  \/ TermCreate(r)
  \/ DownloadImage(r)
  \/ ReadImage(r)
  \/ UploadMedia(r)
  \/ TitleScanPage(r)
  \/ SlugLookup(r)
  \/ PostWrite(r)
  \/ FinishRow(r)

Next == \E r \in BatchRuns : Step(r)

\* one batch run against the remote, no other writer
Spec == Init /\ [][Next]_vars

\* the files and the corpus of the runs checked for completion: a row that
\* fails validation, rows whose title the corpus holds, rows with terms, an
\* image to download or to read, and a slug to look up
LiveRows ==
  { Row(<<" ">>, <<>>, S_s1, <<"b">>, <<>>, <<>>, <<>>),
    Row(T_Hi, <<" ", "x">>, <<>>, <<>>, <<"b">>, File_f, <<>>),
    Row(T_Yo, <<"x">>, S_s0, <<>>, <<>>, <<>>, Url_u) }

InitLive == InitWith({<<Post(7, T_Hi, S_s0, "draft")>>}, SeqsUpTo(LiveRows, MaxRows))

\* the files of the overlapping runs: one row with a term, an image and a
\* slug for the first, one row with the same title and a local image for the
\* second
ConcFile(r) ==
  IF r \in BatchRuns
  THEN <<Row(T_Yo, <<"x">>, S_s1, <<"b">>, <<>>, <<>>, Url_u)>>
  ELSE <<Row(T_Yo, <<"x">>, <<>>, <<>>, <<>>, File_f, <<>>)>>

InitConc ==
  /\ posts \in {<<>>, <<Post(7, T_Hi, S_s0, "draft")>>}
  /\ terms = InitTerms
  /\ media = {}
  /\ nextPostId = 10
  /\ nextTermId = 6
  /\ logResults = <<>>
  /\ pure = NoPure
  /\ web = NoWeb
  /\ run = [r \in Runs |-> [IdleRun EXCEPT !.csv = ConcFile(r)]]

NextConc == \E r \in Runs : Step(r)

\* two uploads handled by the web server: each POST /upload calls
\* processCsvFile when it arrives, whatever the other is doing
ConcSpec == InitConc /\ [][NextConc]_vars

\* JSON texts of the acf_json and schema_json columns: two that parse, two
\* that do not
J_obj   == <<"{", "\"", "a", "\"", ":", "1", "}">>
J_empty == <<" ", "{", " ", "}">>
J_open  == <<"{">>
J_comma == <<"[", "1", ",", "]">>

\* rows that between them take every step of createOrUpdatePost: one with
\* categories, tags, an image to download and the slug of a post, one with a
\* local image and the title of a post, one with a title and content only;
\* each with JSON columns
StepRows ==
  { WithJson(Row(T_Yo, <<"x">>, S_s0, <<"A">>, <<"b">>, <<>>, Url_u),
             J_open, J_obj),
    WithJson(Row(T_Hi, <<" ", "x">>, <<>>, <<>>, <<>>, File_f, <<>>),
             J_empty, J_comma),
    WithJson(Row(T_Yo, <<"x">>, <<>>, <<>>, <<>>, <<>>, <<>>),
             J_obj, <<" ">>) }

\* the corpora of these runs: a post with the title and the slug of rows,
\* and a corpus larger than the window of the title scan
StepCorpora ==
  { ps \in CorpusPool : \A k \in 1..Len(ps) : ps[k].title # <<>> }

InitSteps == InitWith(StepCorpora, SeqsUpTo(StepRows, MaxRows))

\* one batch run over these rows
StepSpec == InitSteps /\ [][Next]_vars

\* the entry points of a batch run
Entries == {"web", "cli"}

InitEntry ==
  /\ posts = <<Post(7, T_Hi, S_s0, "draft")>>
  /\ terms = InitTerms
  /\ media = {}
  /\ nextPostId = 10
  /\ nextTermId = 6
  /\ logResults = <<>>
  /\ pure = NoPure
  /\ web = NoWeb
  /\ \E f \in SeqsUpTo(LiveRows, MaxRows), e \in Entries :
       run = [r \in Runs |-> IF r \in BatchRuns
                             THEN [IdleRun EXCEPT !.csv = f, !.entry = e]
                             ELSE IdleRun]

\* one batch run, started by the server (processCsvFile) or from the command
\* line (main)
EntrySpec == InitEntry /\ [][Next]_vars

\* the types of notification an observer is given
NoteTypes == {"info", "success", "error"}

InitObserver ==
  /\ posts = <<Post(7, T_Hi, S_s0, "draft")>>
  /\ terms = InitTerms
  /\ media = {}
  /\ nextPostId = 10
  /\ nextTermId = 6
  /\ logResults = <<>>
  /\ pure = NoPure
  /\ web = NoWeb
  /\ \E f \in SeqsUpTo(LiveRows, MaxRows), t \in SUBSET NoteTypes :
       run = [r \in Runs |-> IF r \in BatchRuns
                             THEN [IdleRun EXCEPT !.csv = f, !.throwsOn = t]
                             ELSE IdleRun]

\* one run of processCsvFile with an observer that throws on the
\* notifications of some types
ObserverSpec == InitObserver /\ [][Next]_vars

\* a file longer than the window of the title scan (perPage * MaxPages
\* posts): a title, rows with other titles, one more than the window holds,
\* and the first title again
LongFile ==
  << Row(T_Yo, <<"x">>, <<>>, <<>>, <<>>, <<>>, <<>>),
     Row(T_Hi, <<"x">>, S_s1, <<"b">>, <<>>, <<>>, <<>>),
     Row(T_Zz, <<"x">>, <<>>, <<>>, <<>>, File_f, <<>>),
     Row(<<"a">>, <<"x">>, <<>>, <<>>, <<>>, <<>>, Url_u),
     Row(<<"b">>, <<"x">>, <<>>, <<>>, <<>>, <<>>, <<>>),
     Row(<<" ", "y", "o">>, <<"x">>, <<>>, <<>>, <<>>, <<>>, <<>>) >>

InitLong == InitWith({<<>>}, {LongFile})

\* one batch run over the long file, against a remote that holds no posts
LongSpec == InitLong /\ [][Next]_vars

\* the uploader at rest under the server
AtRest ==
  /\ posts = <<>>
  /\ terms = InitTerms
  /\ media = {}
  /\ nextPostId = 10
  /\ nextTermId = 6
  /\ logResults = <<>>
  /\ run = [r \in Runs |-> IdleRun]
  /\ pure = NoPure

\* the server as it starts, in local or in serverless mode
InitAuth ==
  /\ AtRest
  /\ \E vercel \in BOOLEAN : web = [NoWeb EXCEPT !.vercel = vercel]

\* logins, logouts and requests as the clock moves on
AuthSpec == InitAuth /\ [][NextAuth]_vars

\* the local server after one login
InitStream ==
  /\ AtRest
  /\ web = [NoWeb EXCEPT !.logins = 1,
                         !.sessions = With(NoSessions, 1,
                                           [expiresAt |-> DayAge])]

\* progress streams and uploads of the clients of the server
StreamSpec == InitStream /\ [][NextStream]_vars

\* every pending step of the run is eventually taken: each remote call
\* returns or times out, and the event loop runs the code that awaits it
FairSpec == InitLive /\ [][Next]_vars /\ WF_vars(Next)

-----------------------------------------------------------------------------
(* Functions checked on their own *)

\* no run is in progress
Quiet ==
  /\ posts = <<>>
  /\ terms = InitTerms
  /\ media = {}
  /\ nextPostId = 10
  /\ nextTermId = 6
  /\ logResults = <<>>
  /\ run = [r \in Runs |-> IdleRun]
  /\ web = NoWeb

Batch == <<posts, terms, media, nextPostId, nextTermId, logResults, run>>

RECURSIVE Flatten(_)
Flatten(ss) == IF ss = <<>> THEN <<>> ELSE Head(ss) \o Flatten(Tail(ss))

\* pieces of text titles are put together from: entities the function
\* decodes, one it does not, parts of them, markup characters, white space
\* and letters
TitleTokens ==
  { <<"&", "a", "m", "p", ";">>,
    <<"a", "m", "p", ";">>,
    <<"&">>,
    <<";">>,
    <<"&", "n", "b", "s", "p", ";">>,
    <<"&", "q", "u", "o", "t", ";">>,
    <<"&", "#", "3", "9", ";">>,
    <<"&", "#", "0", "3", "8", ";">>,
    <<"&", "#", "8", "2", "1", "7", ";">>,
    <<"<", "b", ">">>,
    <<"<">>,
    <<">">>,
    <<" ">>,
    <<"\t">>,
    <<"a">>,
    <<"B">> }

InitTitle ==
  /\ Quiet
  /\ \E ts \in SeqsUpTo(TitleTokens, MaxTokens) :
       pure = [arg |-> Flatten(ts), val |-> Flatten(ts), n |-> 0]

\* normalizeTitle applied to the title, then to its own result
ApplyNormalizeTitle ==
  /\ pure.n < 2
  /\ pure' = [pure EXCEPT !.val = normalizeTitle(@), !.n = @ + 1]
  /\ UNCHANGED <<Batch, web>>

TitleSpec == InitTitle /\ [][ApplyNormalizeTitle]_vars

\* the entities normalizeTitle replaces and what it replaces them by
Entities ==
  { [entity |-> <<"&", "n", "b", "s", "p", ";">>, char |-> " "],
    [entity |-> <<"&", "a", "m", "p", ";">>, char |-> "&"],
    [entity |-> <<"&", "q", "u", "o", "t", ";">>, char |-> "\""],
    [entity |-> <<"&", "#", "8", "2", "1", "7", ";">>, char |-> "'"],
    [entity |-> <<"&", "#", "8", "2", "1", "6", ";">>, char |-> "'"],
    [entity |-> <<"&", "#", "3", "9", ";">>, char |-> "'"],
    [entity |-> <<"&", "#", "0", "3", "8", ";">>, char |-> "&"] }

UpperChar(c) ==
  IF \E k \in 1..Len(LowerChars) : LowerChars[k] = c
  THEN UpperChars[CHOOSE k \in 1..Len(LowerChars) : LowerChars[k] = c]
  ELSE c

IsLetter(c) == LowerChar(c) # c \/ UpperChar(c) # c

\* the characters of the plain titles: a letter, a space, characters the
\* entities stand for, and a semicolon
BaseChars == {"a", " ", "&", "'", ";"}

BaseTitles == { b \in SeqsUpTo(BaseChars, MaxBaseLen) : Trim(b) # <<>> }

\* the tags put into a title
Tags == { <<"<", "b", ">">>, <<"<", "/", "b", ">">> }

\* a title as a sequence of pieces: a character of the plain title, the
\* entity put in its place, a run of white space, a tag
Pieces(b) == [k \in 1..Len(b) |-> <<b[k]>>]

\* findPostByTitle's comparison of two titles, each as the row's title
\* against a post that carries the other
CompareTitles(a, b) ==
  [asPost |-> ScanPosts(<<Post(1, b, <<>>, "draft")>>, normalizeTitle(Trim(a))).kind,
   asRow  |-> ScanPosts(<<Post(1, a, <<>>, "draft")>>, normalizeTitle(Trim(b))).kind]

InitVariant ==
  /\ Quiet
  /\ \E b \in BaseTitles :
       pure = [arg |-> b, val |-> Pieces(b), out |-> CompareTitles(b, b)]

\* one more difference between the title and the plain title, and the
\* comparison of the two
Edit(val) ==
  /\ pure' = [pure EXCEPT !.val = val, !.out = CompareTitles(pure.arg, Flatten(val))]
  /\ UNCHANGED <<Batch, web>>

\* a letter of the title changes case
FlipCase ==
  \E k \in 1..Len(pure.val) :
    /\ Len(pure.val[k]) = 1 /\ IsLetter(pure.val[k][1])
    /\ Edit([pure.val EXCEPT ![k] = IF LowerChar(@[1]) # @[1]
                                     THEN <<LowerChar(@[1])>>
                                     ELSE <<UpperChar(@[1])>>])

\* a white space character becomes a run of two
StretchSpace ==
  \E k \in 1..Len(pure.val), w \in {" ", "\t"} :
    /\ Len(pure.val[k]) = 1 /\ pure.val[k][1] \in WhiteSpace
    /\ Edit([pure.val EXCEPT ![k] = Append(@, w)])

\* a tag is put between two pieces of a title that has none
InsertTag ==
  \E k \in 0..Len(pure.val), tag \in Tags :
    /\ \A j \in 1..Len(pure.val) : pure.val[j] \notin Tags
    /\ Edit(SubSeq(pure.val, 1, k) \o <<tag>> \o SubSeq(pure.val, k + 1, Len(pure.val)))

\* a character is written as an entity that stands for it
EncodeEntity ==
  \E k \in 1..Len(pure.val), e \in Entities :
    /\ pure.val[k] = <<e.char>>
    /\ Edit([pure.val EXCEPT ![k] = e.entity])

NextVariant ==
  \/ FlipCase
  \/ StretchSpace
  \/ InsertTag
  \/ EncodeEntity

\* titles that differ in letter case, white space, tags and entities
VariantSpec == InitVariant /\ [][NextVariant]_vars

\* the metadata written for noindex and nofollow; "" and <<>> stand for a
\* key that is not set
NoRobotsMeta ==
  [yoast_noindex |-> "", yoast_nofollow |-> "", rank_math_robots |-> <<>>]

\* IsYes comparing the value as it is
IsYes_CaseSensitive(value) ==
  Trim(value) # <<>> /\ value = <<"y", "e", "s">>

\* row.noindex?.trim() && row.noindex.toLowerCase() === 'yes'
IsYes(value) ==
  Trim(value) # <<>> /\ ToLowerCase(value) = <<"y", "e", "s">>

\* the noindex and nofollow settings of createOrUpdatePost; the keys the
\* source writes meta._yoast_wpseo_meta-robots-noindex and
\* meta._yoast_wpseo_meta-robots-nofollow are the fields yoast_noindex and
\* yoast_nofollow
RobotsMeta(row) ==
  LET m1 == IF IsYes(row.noindex)
            THEN [NoRobotsMeta EXCEPT !.yoast_noindex = "1",
                                      !.rank_math_robots = <<"noindex">>]
            ELSE NoRobotsMeta
  IN IF IsYes(row.nofollow)
     THEN [m1 EXCEPT !.yoast_nofollow = "1",
                     !.rank_math_robots = IF @ # <<>> THEN Append(@, "nofollow")
                                          ELSE <<"nofollow">>]
     ELSE m1

\* the characters of the noindex values
FlagChars == {"y", "e", "s", "Y", "E", "S", " "}

InitMeta ==
  /\ Quiet
  /\ \E v \in SeqsUpTo(FlagChars, MaxFlagLen),
        w \in {<<>>, <<"y", "e", "s">>, <<"n", "o">>} :
       pure = [arg |-> [noindex |-> v, nofollow |-> w], val |-> NoRobotsMeta, n |-> 0]

\* the metadata is built for the row
BuildRobotsMeta ==
  /\ pure.n = 0
  /\ pure' = [pure EXCEPT !.val = RobotsMeta(pure.arg), !.n = 1]
  /\ UNCHANGED <<Batch, web>>

MetaSpec == InitMeta /\ [][BuildRobotsMeta]_vars

\* postData.meta with the key set to the value
SetMeta(meta, key, value) ==
  [k \in DOMAIN meta \cup {key} |-> IF k = key THEN value ELSE meta[k]]

\* postData.meta = {}
NoMeta == [k \in {} |-> <<>>]

\* the SEO columns of a row and the meta keys each is written to when it is
\* not blank (the keys the source writes _yoast_wpseo_opengraph-title and so
\* on are the keys of those names)
SeoKeys ==
  [meta_description    |-> {"_yoast_wpseo_metadesc", "rank_math_description"},
   seo_title           |-> {"_yoast_wpseo_title", "rank_math_title"},
   og_title            |-> {"_yoast_wpseo_opengraph-title"},
   og_description      |-> {"_yoast_wpseo_opengraph-description"},
   twitter_title       |-> {"_yoast_wpseo_twitter-title"},
   twitter_description |-> {"_yoast_wpseo_twitter-description"},
   canonical_url       |-> {"_yoast_wpseo_canonical", "rank_math_canonical_url"}]

KeywordKeys == {"_yoast_wpseo_focuskw", "rank_math_focus_keyword"}

\* meta with every key of keys set to the value
RECURSIVE SetKeys(_, _, _)
SetKeys(meta, keys, value) ==
  IF keys = {} THEN meta
  ELSE LET k == CHOOSE x \in keys : TRUE
       IN SetKeys(SetMeta(meta, k, value), keys \ {k}, value)

\* the if statements of the columns of cols, each setting its keys to the
\* trimmed column
RECURSIVE SetColumns(_, _, _)
SetColumns(meta, cols, row) ==
  IF cols = {} THEN meta
  ELSE LET c == CHOOSE x \in cols : TRUE
       IN SetColumns(IF Trim(row[c]) # <<>>
                     THEN SetKeys(meta, SeoKeys[c], Trim(row[c]))
                     ELSE meta,
                     cols \ {c}, row)

\* (row.focus_keyword || row.primary_keyword).trim()
Keyword(row) ==
  Trim(IF row.focus_keyword # <<>> THEN row.focus_keyword ELSE row.primary_keyword)

\* the SEO fields of createOrUpdatePost up to the canonical URL
SeoMeta(row) ==
  LET m == SetColumns(NoMeta, DOMAIN SeoKeys, row)
  IN IF Trim(row.focus_keyword) # <<>> \/ Trim(row.primary_keyword) # <<>>
     THEN SetKeys(m, KeywordKeys, Keyword(row))
     ELSE m

\* the values of the SEO columns
SeoValues == {<<>>, <<" ">>, <<" ", "k">>}

InitSeo ==
  /\ Quiet
  /\ \E row \in [DOMAIN SeoKeys \cup {"focus_keyword", "primary_keyword"} -> SeoValues] :
       pure = [arg |-> row, val |-> NoMeta, n |-> 0]

\* the metadata is built for the row
BuildSeoMeta ==
  /\ pure.n = 0
  /\ pure' = [pure EXCEPT !.val = SeoMeta(pure.arg), !.n = 1]
  /\ UNCHANGED <<Batch, web>>

SeoSpec == InitSeo /\ [][BuildSeoMeta]_vars

-----------------------------------------------------------------------------
(* Vocabulary of the properties *)

\* s is missing, empty or whitespace-only
IsBlank(s) == \A k \in 1..Len(s) : s[k] \in WhiteSpace

PostWrites == {"postCreate", "postUpdate"}

WriteCalls == {"termCreate", "mediaUpload", "postCreate", "postUpdate"}

Events(calls) == {calls[k] : k \in 1..Len(calls)}

\* createOrUpdatePost has finished the row and is about to return its result
RowEnded(r) == run[r].pc = "rowDone"

ValidRow(row) == ~IsBlank(row.title) /\ ~IsBlank(row.content)

\* the posts of a corpus whose normalized title is that of the row
TitleTwins(ps, row) ==
  {k \in 1..Len(ps) : normalizeTitle(ps[k].title) = normalizeTitle(row.title)}

\* the posts of a corpus that carry the row's slug
SlugTwins(ps, row) == {k \in 1..Len(ps) : ps[k].slug = Trim(row.slug)}

PostIds(ps) == {ps[k].id : k \in 1..Len(ps)}

-----------------------------------------------------------------------------
(* C1 *)

\* C1: a valid row whose normalized title equals that of a post the corpus
\* held when the row started ends with the duplicate-title error, no action,
\* no post id, and the corpus as it was.
C1_DuplicateTitleRejected ==
  \A r \in BatchRuns :
    (RowEnded(r) /\ ValidRow(run[r].row) /\ TitleTwins(run[r].rowPosts, run[r].row) # {})
      => /\ run[r].result.error = ErrDuplicate
         /\ run[r].result.action = "null"
         /\ run[r].result.postId = 0
         /\ posts = run[r].rowPosts

-----------------------------------------------------------------------------
(* C2 *)

\* C2 as stated: a row rejected as a title duplicate has issued no
\* state-mutating remote call of any kind.
C2_NoWriteOfAnyKind ==
  \A r \in BatchRuns :
    (RowEnded(r) /\ run[r].result.error = ErrDuplicate)
      => Events(run[r].calls) \cap WriteCalls = {}

\* C2, amended: a row rejected as a title duplicate has issued no post create
\* and no post update call, and the corpus of posts is as the row found it
\* (term creates and the media upload of the row precede the duplicate check).
C2_NoPostWriteForDuplicate ==
  \A r \in BatchRuns :
    (RowEnded(r) /\ run[r].result.error = ErrDuplicate)
      => /\ Events(run[r].calls) \cap PostWrites = {}
         /\ posts = run[r].rowPosts

\* a rejected duplicate whose image was uploaded before the check
C2_Witness ==
  \E r \in BatchRuns :
    /\ RowEnded(r) /\ run[r].result.error = ErrDuplicate
    /\ "mediaUpload" \in Events(run[r].calls)

-----------------------------------------------------------------------------
(* C3 *)

\* C3: a valid row, all of whose remote calls succeeded and whose title is
\* carried by no post other than the one with its slug, ends "updated" with
\* the id of the post that carries its slug when there is one, and "created"
\* with an id new to the corpus when there is none.
C3_SlugDecidesAction ==
  \A r \in BatchRuns :
    (/\ RowEnded(r) /\ ValidRow(run[r].row) /\ run[r].faults = <<>>
     /\ TitleTwins(run[r].rowPosts, run[r].row) \subseteq SlugTwins(run[r].rowPosts, run[r].row))
      => LET twins == SlugTwins(run[r].rowPosts, run[r].row)
             res   == run[r].result
         IN IF twins # {}
            THEN /\ res.action = "updated"
                 /\ \E k \in twins : res.postId = run[r].rowPosts[k].id
            ELSE /\ res.action = "created"
                 /\ res.postId # 0
                 /\ res.postId \notin PostIds(run[r].rowPosts)

-----------------------------------------------------------------------------
(* C4 *)

\* C4: when a row with a slug was created and the same row is processed again
\* next, all its remote calls succeeding and no other post carrying its title
\* or its slug, the second result is "updated" with the first result's post
\* id and one post carries the slug.
C4_ReimportUpdates ==
  \A r \in BatchRuns :
    (/\ RowEnded(r) /\ run[r].i = 1
     /\ run[r].rows[1] = run[r].rows[2]
     /\ ~IsBlank(run[r].row.slug)
     /\ logResults[1].action = "created"
     /\ run[r].faults = <<>>
     /\ \A k \in TitleTwins(run[r].rowPosts, run[r].row)
                   \cup SlugTwins(run[r].rowPosts, run[r].row) :
          run[r].rowPosts[k].id = logResults[1].postId)
      => /\ run[r].result.action = "updated"
         /\ run[r].result.postId = logResults[1].postId
         /\ Cardinality(SlugTwins(posts, run[r].row)) = 1

-----------------------------------------------------------------------------
(* C5 *)

\* C5: a row one of whose identity lookups (a title-scan page request, the
\* slug lookup) failed ends with an error and without a post write.
C5_LookupFailureFailsRow ==
  \A r \in BatchRuns :
    (RowEnded(r) /\ Events(run[r].faults) \cap {"titlePage", "slugLookup"} # {})
      => /\ run[r].result.error # NoError
         /\ Events(run[r].calls) \cap PostWrites = {}

-----------------------------------------------------------------------------
(* C6 *)

\* C6: throughout a batch run the results hold one record per row already
\* processed, in row order, numbered by 1-based position and titled by its
\* row; at the end there are as many records as rows.
C6_OneResultPerRow ==
  \A r \in BatchRuns :
    run[r].pc # "idle"
      => /\ Len(logResults) = run[r].i
         /\ \A k \in 1..Len(logResults) :
              /\ logResults[k].rowNumber = k
              /\ logResults[k].title =
                   IF run[r].rows[k].title # <<>> THEN run[r].rows[k].title
                   ELSE <<"Untitled">>
         /\ run[r].pc = "done"
              => /\ Len(logResults) = Len(run[r].rows)
                 /\ run[r].summary.results = logResults

\* a finished batch of two rows, the first failed and the second written
C6_Witness ==
  \E r \in BatchRuns :
    /\ run[r].pc = "done" /\ Len(logResults) = 2
    /\ logResults[1].error # NoError /\ logResults[2].error = NoError

-----------------------------------------------------------------------------
(* C7 *)

\* C7: a row whose title or content is missing, empty or whitespace-only
\* ends with the missing-field error (title checked first), no action, no
\* post id, and no remote call.
C7_MissingFieldRejected ==
  \A r \in BatchRuns :
    (RowEnded(r) /\ ~ValidRow(run[r].row))
      => /\ run[r].result.error =
              IF IsBlank(run[r].row.title) THEN ErrMissingTitle ELSE ErrMissingContent
         /\ run[r].result.action = "null"
         /\ run[r].result.postId = 0
         /\ run[r].calls = <<>>
         /\ posts = run[r].rowPosts

\* a rejected row with a whitespace-only title and no content
C7_Witness ==
  \E r \in BatchRuns :
    /\ RowEnded(r) /\ run[r].row.title # <<>>
    /\ IsBlank(run[r].row.title) /\ IsBlank(run[r].row.content)

-----------------------------------------------------------------------------
(* C8 *)

Count(calls, S) == Cardinality({k \in 1..Len(calls) : calls[k] \in S})

\* C8: every state-mutating call of a row comes directly after a sleep, so
\* two writes are never issued without a delay between them and the writes
\* are no more than the delays.
C8_WritesAreDelayed ==
  \A r \in BatchRuns :
    /\ \A k \in 1..Len(run[r].calls) :
         run[r].calls[k] \in WriteCalls => k > 1 /\ run[r].calls[k - 1] = "delay"
    /\ Count(run[r].calls, WriteCalls) <= Count(run[r].calls, {"delay"})

\* a row that created a term and then wrote its post
C8_Witness ==
  \E r \in BatchRuns :
    /\ RowEnded(r)
    /\ "termCreate" \in Events(run[r].calls)
    /\ Events(run[r].calls) \cap PostWrites # {}

-----------------------------------------------------------------------------
(* C9 *)

\* C9: once the rows are loaded the run is never aborted, and it ends with a
\* summary over all its rows.
C9_BatchCompletes ==
  /\ \A r \in BatchRuns :
       (run[r].pc = "row" /\ run[r].i = 0)
         ~> (/\ run[r].pc = "done"
             /\ run[r].summary.total = Len(run[r].rows)
             /\ Len(run[r].summary.results) = Len(run[r].rows))
  /\ [][\A r \in BatchRuns :
          run[r].pc \notin {"connect", "load"} => run'[r].pc # "aborted"]_vars

\* a finished batch whose first row was rejected by the remote
C9_Witness ==
  \E r \in BatchRuns :
    /\ run[r].pc = "done" /\ Len(run[r].rows) = 2
    /\ logResults[1].error = ErrRejected
    /\ logResults[2].error = ErrDuplicate

-----------------------------------------------------------------------------
(* C10 *)

\* C10: the summary returned is computed from the results: total is the number
\* of rows and of results, success the results without error, failed the
\* results with one, and total = success + failed.
C10_SummaryFromResults ==
  \A r \in BatchRuns :
    run[r].pc = "done"
      => LET sm == run[r].summary
             ok == {k \in 1..Len(sm.results) : sm.results[k].error = NoError}
         IN /\ sm.results = logResults
            /\ sm.total = Len(run[r].rows)
            /\ sm.total = Len(sm.results)
            /\ sm.success = Cardinality(ok)
            /\ sm.failed = Len(sm.results) - Cardinality(ok)
            /\ sm.total = sm.success + sm.failed

\* a summary counting one success and one failure
C10_Witness ==
  \E r \in BatchRuns :
    /\ run[r].pc = "done"
    /\ run[r].summary.success = 1 /\ run[r].summary.failed = 1

-----------------------------------------------------------------------------
(* C11 *)

\* C11: when the pre-flight check fails the run is aborted there: no rows are
\* loaded, no result is produced, the pre-flight is the only remote call and
\* the remote holds what it held.
C11_ConnectivityFailureAborts ==
  \A r \in BatchRuns :
    "connect" \in Events(run[r].faults)
      => /\ run[r].pc = "aborted"
         /\ run[r].rows = <<>>
         /\ logResults = <<>>
         /\ run[r].calls = <<"connect">>
         /\ posts \in CorpusPool /\ terms = InitTerms /\ media = {}

\* a run aborted by its pre-flight
C11_Witness ==
  \E r \in BatchRuns :
    run[r].pc = "aborted" /\ run[r].faults = <<"connect">> /\ run[r].csv # <<>>

-----------------------------------------------------------------------------
(* C12 *)

\* the run is between the start and the end of processCsvFile
InProgress(r) == run[r].pc \notin {"idle", "done", "aborted"}

\* C12: two runs are never both between their start and their end with
\* remote calls issued by each, and no two runs end a row having both created
\* a post for the same title.
C12_RunsDoNotInterleave ==
  \A r, q \in Runs :
    r # q =>
      /\ ~(/\ InProgress(r) /\ InProgress(q)
           /\ run[r].calls # <<>> /\ run[q].calls # <<>>)
      /\ ~(/\ RowEnded(r) /\ RowEnded(q)
           /\ run[r].result.action = "created" /\ run[q].result.action = "created"
           /\ normalizeTitle(run[r].row.title) = normalizeTitle(run[q].row.title))

-----------------------------------------------------------------------------
(* C13 *)

\* C13: the summary a run returns holds one result for each of its own rows,
\* in row order, and its success and failed counts add up to its total.
C13_OverlappingRunsKeepTheirResults ==
  \A r \in Runs :
    run[r].pc = "done"
      => LET sm == run[r].summary IN
         /\ Len(sm.results) = Len(run[r].rows)
         /\ \A k \in 1..Len(sm.results) : sm.results[k].rowNumber = k
         /\ sm.success + sm.failed = sm.total

-----------------------------------------------------------------------------
(* C14 *)

TermFaults == {"termSearch", "termCreate"}

MediaFaults == {"download", "mediaUpload"}

\* the names resolveTerms resolves for a row, categories first
NamesOf(row) == SplitNames(row.categories) \o SplitNames(row.tags)

\* the row's error, if any, is the duplicate rejection or that of its post
\* write, and a row not rejected as a duplicate has issued its post write
ReachedItsWrite(r) ==
  /\ "titlePage" \in Events(run[r].calls)
  /\ run[r].result.error # NoError
       => run[r].result.error = ErrDuplicate \/ "write" \in Events(run[r].faults)
  /\ run[r].result.error # ErrDuplicate
       => Events(run[r].calls) \cap PostWrites # {}
  /\ (Events(run[r].calls) \cap PostWrites # {} /\ "write" \notin Events(run[r].faults))
       => run[r].result.error = NoError /\ run[r].result.action # "null"

\* C14: a row some of whose term searches or creates failed, and whose image
\* file was read if it had one, has still searched every name of its lists,
\* carries one id for each name that did not fail, and went on to the
\* duplicate check and its post write with no error but theirs.
C14_TermFailureIsNotTerminal ==
  \A r \in BatchRuns :
    (/\ RowEnded(r) /\ ValidRow(run[r].row)
     /\ Events(run[r].faults) \cap TermFaults # {}
     /\ "readFile" \notin Events(run[r].faults))
      => /\ Count(run[r].calls, {"termSearch"}) = Len(NamesOf(run[r].row))
         /\ Len(run[r].postData.categories) + Len(run[r].postData.tags)
              = Len(NamesOf(run[r].row)) - Count(run[r].faults, TermFaults)
         /\ ReachedItsWrite(r)

\* the search of the first of two names failed, the second was created and
\* the post written without error
C14_Witness ==
  \E r \in BatchRuns :
    /\ RowEnded(r) /\ run[r].faults = <<"termSearch">>
    /\ Len(NamesOf(run[r].row)) = 2
    /\ Len(run[r].postData.categories) = 1
    /\ "termCreate" \in Events(run[r].calls)
    /\ run[r].result.action = "created" /\ run[r].result.error = NoError

-----------------------------------------------------------------------------
(* C15 *)

\* the row names an image and uploadMedia returned null: the download failed,
\* the local file is missing, or the upload was rejected
MediaFailed(r) ==
  \/ Events(run[r].faults) \cap MediaFaults # {}
  \/ /\ ImagePathOf(run[r].row) # <<>>
     /\ ~IsUrl(ImagePathOf(run[r].row))
     /\ ImagePathOf(run[r].row) \notin LocalFiles

\* C15: a row whose image could not be downloaded, is missing, or was
\* rejected by the upload carries no featured_media and went on to the
\* duplicate check and its post write with no error but theirs.
C15_MediaFailureIsNotTerminal ==
  \A r \in BatchRuns :
    (RowEnded(r) /\ ValidRow(run[r].row) /\ MediaFailed(r))
      => /\ run[r].postData.featured_media = 0
         /\ "readFile" \notin Events(run[r].faults)
         /\ ReachedItsWrite(r)

\* a row whose local image is missing, written without error
C15_Witness ==
  \E r \in BatchRuns :
    /\ RowEnded(r) /\ run[r].row.featured_image_path = File_g
    /\ run[r].faults = <<>>
    /\ run[r].postData.featured_media = 0
    /\ run[r].result.action = "created" /\ run[r].result.error = NoError

-----------------------------------------------------------------------------
(* C16 *)

\* the names of a list that no term of ts carries, letter case ignored
NewNames(names, ts) ==
  { ToLowerCase(names[k]) : k \in 1..Len(names) }
    \ { ToLowerCase(ts[k].name) : k \in 1..Len(ts) }

\* ids are the ids of the terms of ts that carry the names, in order
IdsOfNames(ids, names, ts) ==
  /\ Len(ids) = Len(names)
  /\ \A k \in 1..Len(ids) :
       \E j \in 1..Len(ts) :
         ts[j].id = ids[k] /\ ToLowerCase(ts[j].name) = ToLowerCase(names[k])

\* C16: a row all of whose term calls succeeded carries, for each list, the
\* ids of the list's names in the order of the list, and has issued one
\* create call for each name no term carried when the row started.
C16_TermIdsInInputOrder ==
  \A r \in BatchRuns :
    (/\ RowEnded(r) /\ ValidRow(run[r].row)
     /\ Events(run[r].faults) \cap TermFaults = {})
      => /\ \A tax \in Taxonomies :
              IdsOfNames(run[r].postData[tax], SplitNames(run[r].row[tax]), terms[tax])
         /\ Count(run[r].calls, {"termCreate"})
              = Cardinality(NewNames(SplitNames(run[r].row.categories),
                                     run[r].rowTerms["categories"]))
                + Cardinality(NewNames(SplitNames(run[r].row.tags),
                                       run[r].rowTerms["tags"]))

\* "A, b" against the category a with id 5: one create call, categories
\* [5, 6]
C16_Witness ==
  \E r \in BatchRuns :
    /\ RowEnded(r) /\ run[r].row.categories = <<"A", ",", " ", "b">>
    /\ Len(run[r].rowTerms["categories"]) = 1
    /\ run[r].postData.categories = <<5, 6>>
    /\ Count(run[r].calls, {"termCreate"}) = 1

-----------------------------------------------------------------------------
(* C17 *)

\* C17: no taxonomy ever holds two terms whose names are equal up to letter
\* case, and the ids a row carries are those of the terms named in its
\* lists: a name resolved again, in this row or a later one, finds the term
\* the first resolution found or created and creates nothing.
C17_ReadThenCreate ==
  /\ \A tax \in Taxonomies :
       Cardinality({ ToLowerCase(terms[tax][k].name) : k \in 1..Len(terms[tax]) })
         = Len(terms[tax])
  /\ \A r \in BatchRuns :
       (RowEnded(r) /\ ValidRow(run[r].row))
         => /\ \A tax \in Taxonomies :
                 \A k \in 1..Len(run[r].postData[tax]) :
                   \E j \in 1..Len(terms[tax]) :
                     /\ terms[tax][j].id = run[r].postData[tax][k]
                     /\ \E n \in 1..Len(SplitNames(run[r].row[tax])) :
                          ToLowerCase(SplitNames(run[r].row[tax])[n])
                            = ToLowerCase(terms[tax][j].name)
            /\ Count(run[r].calls, {"termCreate"})
                 <= Cardinality(NewNames(SplitNames(run[r].row.categories),
                                         run[r].rowTerms["categories"]))
                    + Cardinality(NewNames(SplitNames(run[r].row.tags),
                                           run[r].rowTerms["tags"]))

\* the second of two equal rows: the term the first row created is found,
\* with the id it was given, and nothing is created
C17_Witness ==
  \E r \in BatchRuns :
    /\ RowEnded(r) /\ run[r].i = 1 /\ run[r].rows[1] = run[r].rows[2]
    /\ run[r].rowTerms["categories"] = <<Term(5, <<"a">>), Term(6, <<"b">>)>>
    /\ run[r].postData.categories = <<5, 6>>
    /\ "termCreate" \notin Events(run[r].calls)
    /\ Count(run[r].calls, {"termSearch"}) = 2

-----------------------------------------------------------------------------
(* C18 *)

\* C18: normalizeTitle applied to its own result gives that result.
C18_NormalizeIdempotent ==
  pure.n = 2 => pure.val = normalizeTitle(pure.arg)

\* "&amp;amp;B", where one pass decodes an entity into the start of another
C18_Witness ==
  /\ pure.n = 2
  /\ pure.arg = <<"&", "a", "m", "p", ";", "a", "m", "p", ";", "B">>
  /\ pure.val = <<"b">>

-----------------------------------------------------------------------------
(* C19 *)

-----------------------------------------------------------------------------
(* C20 *)

\* C20: the metadata built for a row carries the no-index marker of both
\* conventions when the row's noindex is "yes" in some letter case, and
\* that of neither for any other value.
C20_NoindexOnlyForYes ==
  pure.n = 1
    => LET yes == ToLowerCase(pure.arg.noindex) = <<"y", "e", "s">>
           m   == pure.val
       IN /\ m.yoast_noindex = (IF yes THEN "1" ELSE "")
          /\ ("noindex" \in Events(m.rank_math_robots)) <=> yes

\* noindex "YeS" with nofollow "yes": both markers, robots [noindex, nofollow]
C20_Witness ==
  /\ pure.n = 1
  /\ pure.arg = [noindex |-> <<"Y", "e", "S">>, nofollow |-> <<"y", "e", "s">>]
  /\ pure.val.yoast_noindex = "1"
  /\ pure.val.rank_math_robots = <<"noindex", "nofollow">>

-----------------------------------------------------------------------------
(* C21 *)

\* the text is a JSON column that is filled and does not parse
Malformed(text) == Trim(text) # <<>> /\ ~JsonParse(text).ok

\* the row got through: no error but the duplicate rejection or that of its
\* post write, the write issued unless the row is a duplicate, and no error
\* when the write succeeded
WentOn(r) ==
  /\ run[r].result.error # NoError
       => run[r].result.error = ErrDuplicate \/ "write" \in Events(run[r].faults)
  /\ run[r].result.error # ErrDuplicate
       => Events(run[r].calls) \cap PostWrites # {}
  /\ (Events(run[r].calls) \cap PostWrites # {} /\ "write" \notin Events(run[r].faults))
       => run[r].result.error = NoError /\ run[r].result.action # "null"

\* C21: a row whose acf_json or schema_json does not parse carries no acf,
\* respectively no schema field in its payload, while a column that parses
\* is carried; the row goes on to the duplicate check and its post write,
\* and has no error when the write succeeds.
C21_MalformedJsonIsNotTerminal ==
  \A r \in BatchRuns :
    (RowEnded(r) /\ ValidRow(run[r].row))
      => /\ Malformed(run[r].row.acf_json) => run[r].postData.acf = <<>>
         /\ Malformed(run[r].row.schema_json) => run[r].postData.schema_json = <<>>
         /\ (Malformed(run[r].row.acf_json) \/ Malformed(run[r].row.schema_json))
              /\ "readFile" \notin Events(run[r].faults)
              => WentOn(r)

\* a row with acf_json '{' and schema_json '{"a":1}' was written with the
\* schema and without acf
C21_Witness ==
  \E r \in BatchRuns :
    /\ RowEnded(r) /\ run[r].row.acf_json = J_open
    /\ run[r].postData.acf = <<>> /\ run[r].postData.schema_json = J_obj
    /\ run[r].result.action = "updated" /\ run[r].result.error = NoError

-----------------------------------------------------------------------------
(* C22 *)

\* the column a meta key is written from: for the keyword keys focus_keyword,
\* or primary_keyword when focus_keyword is blank
SourceOf(key, row) ==
  IF key \in KeywordKeys
  THEN IF Trim(row.focus_keyword) # <<>> THEN row.focus_keyword ELSE row.primary_keyword
  ELSE row[CHOOSE c \in DOMAIN SeoKeys : key \in SeoKeys[c]]

\* C22: in the metadata built for a row a key is present exactly when the
\* column it is written from is not blank, and its value is then that
\* column, trimmed, never the empty string.
C22_MetaKeyIffSourceFilled ==
  pure.n = 1 =>
    \A key \in KeywordKeys \cup UNION {SeoKeys[c] : c \in DOMAIN SeoKeys} :
      /\ key \in DOMAIN pure.val <=> Trim(SourceOf(key, pure.arg)) # <<>>
      /\ key \in DOMAIN pure.val
           => pure.val[key] = Trim(SourceOf(key, pure.arg)) /\ pure.val[key] # <<>>

-----------------------------------------------------------------------------
(* C23 *)

\* the run has ended
Ended(r) == run[r].pc \in {"done", "exited", "aborted"}

\* C23: a run that has ended with a result for each of its rows has reported
\* its summary, with the counts of those results, whether or not the log
\* could be written.
C23_LogFailureIsNotFatal ==
  \A r \in BatchRuns :
    (Ended(r) /\ run[r].rows # <<>> /\ Len(logResults) = Len(run[r].rows))
      => /\ run[r].summary.total = Len(run[r].rows)
         /\ run[r].summary.success = SuccessCount(logResults)
         /\ run[r].summary.failed = FailedCount(logResults)

-----------------------------------------------------------------------------
(* C24 *)

\* the run stopped before its rows: the pre-flight failed or the file could
\* not be loaded
AbortedBeforeRows(r) ==
  Events(run[r].faults) \cap {"connect", "load"} # {}

\* C24: a command-line run that has exited has a non-zero exit code exactly
\* when it stopped before its rows or some result has an error.
C24_ExitCodeReflectsFailures ==
  \A r \in BatchRuns :
    run[r].pc = "exited"
      => (run[r].exit # 0
            <=> \/ AbortedBeforeRows(r)
                \/ \E k \in 1..Len(logResults) : logResults[k].error # NoError)

-----------------------------------------------------------------------------
(* C25 *)

\* the step of its row a run is at: 1 the terms of the categories, 2 those of
\* the tags, 3 the image, 4 the title scan, 5 the slug lookup, 6 the post
\* write, 7 the result; 0 outside a row
Phase(s) ==
  IF s.pc \in {"termSearch", "termCreate"}
  THEN (IF s.tax = "categories" THEN 1 ELSE 2)
  ELSE IF s.pc \in {"download", "readFile", "upload"} THEN 3
  ELSE IF s.pc = "titleScan" THEN 4
  ELSE IF s.pc = "slugLookup" THEN 5
  ELSE IF s.pc = "write" THEN 6
  ELSE IF s.pc = "rowDone" THEN 7
  ELSE 0

\* the steps a remote call belongs to
PhasesOf(call) ==
  IF call \in {"termSearch", "termCreate"} THEN {1, 2}
  ELSE IF call \in {"download", "mediaUpload"} THEN {3}
  ELSE IF call = "titlePage" THEN {4}
  ELSE IF call = "slugLookup" THEN {5}
  ELSE IF call \in PostWrites THEN {6}
  ELSE {}

\* the remote calls among calls, the delays left out
RemoteCalls(calls) == SelectSeq(calls, LAMBDA c : c # "delay")

\* the calls of a row are in the order of the steps, with one post write at
\* most, and a run that is in its row i + 1 has appended i results
CallsInStepOrder(r) ==
  LET rc == RemoteCalls(run[r].calls) IN
  /\ \A j, k \in 1..Len(rc) :
       j < k => \E pj \in PhasesOf(rc[j]), pk \in PhasesOf(rc[k]) : pj <= pk
  /\ Count(run[r].calls, PostWrites) <= 1
  /\ Phase(run[r]) # 0 => Len(logResults) = run[r].i
  /\ Phase(run[r]) \in 1..6 => run[r].result.rowNumber = run[r].i + 1

\* a step taken inside a row issues one remote call at most, that of the
\* step the run was at, and leaves the run in the same row, at that step or a
\* later one
OneCallOfItsStep(r) ==
  Phase(run[r]) \in 1..6 =>
    /\ run'[r].i = run[r].i /\ logResults' = logResults
    /\ Phase(run'[r]) >= Phase(run[r])
    /\ Len(run'[r].calls) >= Len(run[r].calls)
    /\ SubSeq(run'[r].calls, 1, Len(run[r].calls)) = run[r].calls
    /\ LET new == RemoteCalls(SubSeq(run'[r].calls, Len(run[r].calls) + 1,
                                     Len(run'[r].calls)))
       IN /\ Len(new) <= 1
          /\ \A k \in 1..Len(new) : Phase(run[r]) \in PhasesOf(new[k])

\* C25: within a row the remote calls are issued one per step in the order
\* categories, tags, image, title scan, slug lookup, post write, the post
\* write once at most; and no call of a row is issued before the result of
\* the row before it is appended.
C25_CallsInFixedOrder ==
  /\ [](\A r \in BatchRuns : CallsInStepOrder(r))
  /\ [][\A r \in BatchRuns : OneCallOfItsStep(r)]_vars

\* the second row of a file, having made calls of every step: terms of both
\* lists, the image, the title scan, the slug lookup and the write
C25_Witness ==
  \E r \in BatchRuns :
    /\ RowEnded(r) /\ run[r].i = 1 /\ Len(logResults) = 1
    /\ {"termSearch", "termCreate", "download", "mediaUpload", "titlePage",
        "slugLookup", "postUpdate"} \subseteq Events(run[r].calls)
    /\ run[r].postData.categories # <<>> /\ run[r].postData.tags # <<>>

-----------------------------------------------------------------------------
(* C26 *)

\* a result has an error exactly when it has no action, then neither a post
\* id nor a status, and otherwise the action created or updated and the id
\* of a post of the remote
WellFormedResult(res) ==
  /\ res.error # NoError <=> res.action = "null"
  /\ res.error # NoError => res.postId = 0 /\ res.status = "null"
  /\ res.error = NoError
       => res.action \in {"created", "updated"} /\ res.postId \in PostIds(posts)

\* C26: every result a row ends with, and every result appended, has an
\* error exactly when it has no action, and then no post id and no status.
C26_ErrorIffNoAction ==
  /\ \A r \in BatchRuns : RowEnded(r) => WellFormedResult(run[r].result)
  /\ \A k \in 1..Len(logResults) : WellFormedResult(logResults[k])

-----------------------------------------------------------------------------
(* C27 *)

\* the row got as far as its create-or-update step
PassedDuplicateCheck(r) ==
  /\ ValidRow(run[r].row)
  /\ run[r].result.error # ErrDuplicate
  /\ "readFile" \notin Events(run[r].faults)

\* C27: a row that issued an update call has a slug, its slug lookup
\* succeeded and returned the first post with that slug, and the call
\* targets that post and no other; a row without a slug issues no update
\* call and, past the duplicate check, exactly one create call.
C27_SlugLookupDecidesVerb ==
  \A r \in BatchRuns :
    RowEnded(r) =>
      LET s     == run[r]
          found == PostsBySlug(s.rowPosts, s.postData.slug)
      IN /\ "postUpdate" \in Events(s.calls)
              => /\ Trim(s.row.slug) # <<>>
                 /\ "slugLookup" \in Events(s.calls)
                 /\ "slugLookup" \notin Events(s.faults)
                 /\ found # <<>> /\ Head(found).id = s.existingPostId
                 /\ "postCreate" \notin Events(s.calls)
                 /\ s.result.error = NoError => s.result.postId = s.existingPostId
                 /\ Len(posts) = Len(s.rowPosts)
                 /\ \A k \in 1..Len(posts) :
                      posts[k].id # s.existingPostId => posts[k] = s.rowPosts[k]
         /\ Trim(s.row.slug) = <<>>
              => /\ "postUpdate" \notin Events(s.calls)
                 /\ PassedDuplicateCheck(r) => Count(s.calls, {"postCreate"}) = 1

\* a row with the slug of post 7 updated post 7, and the row before it,
\* which has no slug, created a post
C27_Witness ==
  \E r \in BatchRuns :
    /\ RowEnded(r) /\ run[r].row.slug = S_s0
    /\ run[r].existingPostId = 7 /\ run[r].result.action = "updated"
    /\ run[r].result.postId = 7
    /\ Len(logResults) = 1 /\ logResults[1].action = "created"

-----------------------------------------------------------------------------
(* C28 *)

\* C28: in a row no more searches are issued than the row has term names, no
\* more creates than searches, one download, one media upload, one slug
\* lookup and one post write at most; a row whose post write failed has
\* issued that one write and ends with no action and with the error of the
\* write, the response body in it when the remote answered.
C28_NoRetry ==
  \A r \in BatchRuns :
    LET s == run[r] IN
    /\ Count(s.calls, {"termSearch"}) <= Len(NamesOf(s.row))
    /\ Count(s.calls, {"termCreate"}) <= Count(s.calls, {"termSearch"})
    /\ Count(s.calls, {"download"}) <= 1
    /\ Count(s.calls, {"mediaUpload"}) <= 1
    /\ Count(s.calls, {"slugLookup"}) <= 1
    /\ Count(s.calls, PostWrites) <= 1
    /\ "write" \in Events(s.faults)
         => /\ RowEnded(r)
            /\ Count(s.calls, PostWrites) = 1
            /\ s.calls[Len(s.calls)] \in PostWrites
            /\ s.result.action = "null"
            /\ s.result.error \in {ErrRejected, ErrTimeout}

\* a row whose update call the remote rejected: one write, the error with
\* the response body, the remote posts as they were
C28_Witness ==
  \E r \in BatchRuns :
    /\ RowEnded(r) /\ run[r].faults = <<"write">>
    /\ run[r].result.error = ErrRejected
    /\ Count(run[r].calls, {"postUpdate"}) = 1
    /\ Count(run[r].calls, {"termSearch"}) = 2
    /\ posts = run[r].rowPosts

-----------------------------------------------------------------------------
(* C29 *)

\* every page request of the row's title scan was answered and the scan ran
\* to its end
ReadsSucceeded(r) ==
  Events(run[r].faults) \cap {"titlePage", "titleThrow", "slugLookup"} = {}

\* C29: a row whose reads succeeded does not end created when an earlier
\* row of the run with the same normalized title ended created.
C29_OneCreatePerTitle ==
  \A r \in BatchRuns :
    (RowEnded(r) /\ run[r].result.action = "created" /\ ReadsSucceeded(r))
      => \A k \in 1..Len(logResults) :
           ~(/\ logResults[k].action = "created"
             /\ normalizeTitle(logResults[k].title)
                  = normalizeTitle(run[r].result.title))

-----------------------------------------------------------------------------
(* C30 *)

\* the posts the title scan can reach: the newest perPage * MaxPages
Window == perPage * MaxPages

\* the scan asks for the pages 1, 2, ... in turn, MaxPages of them at most
PagesInTurn(r) ==
  /\ Count(run[r].calls, {"titlePage"}) <= MaxPages
  /\ run[r].pc = "titleScan"
       => run[r].page = Count(run[r].calls, {"titlePage"}) + 1

\* a row whose only twins lie outside the window is not rejected as a
\* duplicate
OutsideWindowUnseen(r) ==
  (/\ RowEnded(r)
   /\ \A k \in TitleTwins(run[r].rowPosts, run[r].row) : k > Window)
    => run[r].result.error # ErrDuplicate

\* a page request of the scan: the scan goes on to the next page exactly
\* when the page was answered in full, held no match, and was not the last
\* the scan may ask for; a match ends the row as a duplicate
ScanStops(r) ==
  LET s    == run[r]
      data == PageOf(posts, s.page)
      hit  == ScanPosts(data, normalizeTitle(s.postData.title))
      answered == Len(run'[r].faults) = Len(s.faults)
  IN s.pc = "titleScan" =>
       /\ run'[r].pc = "titleScan"
            <=> (answered /\ Len(data) = perPage /\ hit.kind = "none"
                 /\ s.page < MaxPages)
       /\ run'[r].pc = "titleScan" => run'[r].page = s.page + 1
       /\ (answered /\ hit.kind = "match")
            => run'[r].pc = "rowDone" /\ run'[r].result.error = ErrDuplicate
       /\ (answered /\ hit.kind = "none" /\ run'[r].pc # "titleScan")
            => run'[r].pc \in {"slugLookup", "write"}

\* C30: the title scan of a row asks for the pages 1..MaxPages at most, one
\* after the other; it stops at a match, at an empty or a short page and
\* after the last page, so that a twin outside the window is not seen.
C30_TitleScanIsBounded ==
  /\ [](\A r \in BatchRuns : PagesInTurn(r) /\ OutsideWindowUnseen(r))
  /\ [][\A r \in BatchRuns : ScanStops(r)]_vars

\* the row titled 'Hi' against five posts of which the oldest is titled
\* 'Hi': two full pages are scanned and the row is created
C30_Witness ==
  \E r \in BatchRuns :
    /\ RowEnded(r) /\ run[r].row.title = T_Hi /\ Len(run[r].rowPosts) = 5
    /\ TitleTwins(run[r].rowPosts, run[r].row) = {5}
    /\ Count(run[r].calls, {"titlePage"}) = MaxPages
    /\ run[r].faults = <<>>
    /\ run[r].result.action = "created"

-----------------------------------------------------------------------------
(* C31 *)

\* C31: a delay is there for a write only: while every call of a row
\* succeeds, every sleep of the row is directly followed by a state-mutating
\* call, so a row that has written nothing has not slept.
C31_LookupsAreNotDelayed ==
  \A r \in BatchRuns :
    run[r].faults = <<>> =>
      \A k \in 1..Len(run[r].calls) :
        run[r].calls[k] = "delay"
          => k < Len(run[r].calls) /\ run[r].calls[k + 1] \in WriteCalls

-----------------------------------------------------------------------------
(* C32 *)

\* the positions of the outcome notifications the observer of run r was
\* given for the row in hand
OutcomeNotes(r) ==
  {k \in 1..Len(run[r].notes) :
     /\ run[r].notes[k].type \in {"success", "error"}
     /\ run[r].notes[k].rowNumber = run[r].result.rowNumber}

\* the notification says what the result of the row says
AgreesWithResult(note, res) ==
  IF res.error = NoError
  THEN note.type = "success" /\ note.what = res.action /\ note.postId = res.postId
  ELSE note.type = "error" /\ note.what = res.error

\* C32: a row that has ended under an observer has given the observer one
\* outcome notification, a success with the verb and the post id when the
\* result has no error and an error with the error text when it has one.
C32_OneOutcomeNote ==
  \A r \in BatchRuns :
    (RowEnded(r) /\ run[r].entry = "web")
      => /\ Cardinality(OutcomeNotes(r)) = 1
         /\ \A k \in OutcomeNotes(r) : AgreesWithResult(run[r].notes[k], run[r].result)

-----------------------------------------------------------------------------
(* C33 *)

\* the trimmed value of the first of focus_keyword and primary_keyword that
\* is not blank, <<>> when both are
FirstFilledKeyword(row) ==
  IF Trim(row.focus_keyword) # <<>> THEN Trim(row.focus_keyword)
  ELSE Trim(row.primary_keyword)

\* C33: when one of focus_keyword and primary_keyword is not blank, the
\* focus-keyword keys of the metadata hold the trimmed value of the first of
\* the two that is not blank: focus_keyword when it is not blank, and
\* primary_keyword otherwise.
C33_FirstFilledKeywordWins ==
  (pure.n = 1 /\ FirstFilledKeyword(pure.arg) # <<>>)
    => \A key \in KeywordKeys :
         key \in DOMAIN pure.val /\ pure.val[key] = FirstFilledKeyword(pure.arg)

-----------------------------------------------------------------------------
(* C34 *)

\* the meta keys of the two naming conventions
YoastKeys ==
  {"_yoast_wpseo_metadesc", "_yoast_wpseo_focuskw", "_yoast_wpseo_title",
   "_yoast_wpseo_opengraph-title", "_yoast_wpseo_opengraph-description",
   "_yoast_wpseo_twitter-title", "_yoast_wpseo_twitter-description",
   "_yoast_wpseo_canonical"}

RankMathKeys ==
  {"rank_math_description", "rank_math_focus_keyword", "rank_math_title",
   "rank_math_canonical_url"}

\* the metadata holds the value under a key of the convention
HeldUnder(meta, keys, value) ==
  \E key \in DOMAIN meta \cap keys : meta[key] = value

\* C34: the trimmed value of every SEO column of the row that is not blank
\* is in the metadata under a key of the primary and under a key of the
\* secondary naming convention.
C34_BothConventions ==
  pure.n = 1 =>
    \A c \in DOMAIN SeoKeys :
      Trim(pure.arg[c]) # <<>>
        => /\ HeldUnder(pure.val, YoastKeys, Trim(pure.arg[c]))
           /\ HeldUnder(pure.val, RankMathKeys, Trim(pure.arg[c]))

-----------------------------------------------------------------------------
(* C35 *)

\* C35: a row that ends with an error has left the posts of the remote as
\* they were when the row began, also when all that failed in the row is
\* its write.
C35_FailedRowLeavesPosts ==
  \A r \in BatchRuns :
    (/\ RowEnded(r) /\ run[r].result.error # NoError
     /\ Events(run[r].faults) \subseteq {"write"})
      => posts = run[r].rowPosts

-----------------------------------------------------------------------------
(* C36 *)

\* the step is a request that requireAuth has looked at, for a path it
\* does not let through unseen
ProtectedRequest == web'.last # web.last /\ web'.last.path \notin OpenPaths

\* the credentials are good at the server w: a session of the store that
\* has not expired, or on Vercel a token that validateAuthToken accepts
Live(w, sessionId, authToken) ==
  IF w.vercel THEN validateAuthToken(authToken)
  ELSE sessionId \in DOMAIN w.sessions /\ w.sessions[sessionId].expiresAt > w.now

\* the session is in the store of w and has expired
Expired(w, sessionId) ==
  ~w.vercel /\ sessionId \in DOMAIN w.sessions
            /\ w.sessions[sessionId].expiresAt <= w.now

\* C36: a request for a protected path gets to its handler only with a
\* session of the store that has not expired (local mode) or a valid token
\* (serverless mode); a request that presents an expired session is
\* rejected, and the session is no longer in the store.
C36_OnlyLiveCredentialsPass ==
  [][ProtectedRequest =>
        /\ web'.last.reached => Live(web, web'.last.sessionId, web'.last.authToken)
        /\ Expired(web, web'.last.sessionId)
             => ~web'.last.reached /\ web'.last.sessionId \notin DOMAIN web'.sessions]_vars

\* the session of the first login was presented for an upload after it had
\* expired, before any clean-up could run: the request was rejected and the
\* session is gone
C36_Witness ==
  /\ ~web.vercel /\ web.now = DayAge /\ web.logins >= 1
  /\ web.last.path = "/upload" /\ web.last.sessionId = 1 /\ ~web.last.reached
  /\ 1 \notin DOMAIN web.sessions /\ 1 \notin web.loggedOut.sessionIds

-----------------------------------------------------------------------------
(* C37 *)

\* the request presents a credential that a login had handed out and that a
\* logout request carried since
LoggedOutCredential ==
  IF web.vercel THEN web'.last.authToken \in web.loggedOut.tokens
  ELSE web'.last.sessionId \in web.loggedOut.sessionIds

\* C37: once a logout request has carried the credential of a login, no
\* request for a protected path that presents it gets to its handler.
C37_LogoutRevokes ==
  [][(ProtectedRequest /\ LoggedOutCredential) => ~web'.last.reached]_vars

-----------------------------------------------------------------------------
(* C38 *)

\* the connections the registry holds under the session id
RegisteredUnder(sessionId) ==
  IF sessionId \in DOMAIN web.sseConnections
  THEN {web.sseConnections[sessionId][k] : k \in 1..Len(web.sseConnections[sessionId])}
  ELSE {}

\* the registry holds, under each session id it has, the open connections
\* of that session id, each once, and there is at least one
RegistryIsOpenStreams ==
  /\ \A sessionId \in DOMAIN web.sseConnections :
       /\ web.sseConnections[sessionId] # <<>>
       /\ Cardinality(RegisteredUnder(sessionId)) = Len(web.sseConnections[sessionId])
  /\ \A sessionId \in StreamIds :
       RegisteredUnder(sessionId)
         = {c \in 1..Len(web.conns) :
              web.conns[c].open /\ web.conns[c].sessionId = sessionId}

\* C38: the registry maps a session id to its open connections only and
\* never to an empty list, and what a run broadcasts has been written only
\* to connections opened under the session id of the run.
C38_RegistryHoldsOpenStreams ==
  /\ RegistryIsOpenStreams
  /\ \A c \in 1..Len(web.conns) : web.conns[c].got \subseteq {web.conns[c].sessionId}

\* a stream of session s1 that received progress and was closed, its list
\* gone from the registry while the upload of s1 still runs, and an open
\* stream of session s2 that received the progress of s2 only
C38_Witness ==
  /\ Len(web.conns) = 2
  /\ web.conns[1] = [sessionId |-> "s1", open |-> FALSE, got |-> {"s1"}]
  /\ web.conns[2] = [sessionId |-> "s2", open |-> TRUE, got |-> {"s2"}]
  /\ web.uploads = {"s1", "s2"}
  /\ DOMAIN web.sseConnections = {"s2"}

====
